---- MODULE Spec2Model ----
(***************************************************************************)
(* Forward render technique of the Nazara engine                           *)
(* (src/src/Nazara/Graphics/ForwardRenderTechnique.cpp): the streaming     *)
(* sprite packers, the light selection and the multi-pass submission of    *)
(* opaque meshes, as state machines over the renderer calls they issue.    *)
(***************************************************************************)
EXTENDS Integers, Sequences, FiniteSets, TLC

VARIABLES
    pc,                    \* position of the running submitter
    calls,                 \* history: renderer / shader calls issued so far
    spriteVertexCount,     \* m_spriteBuffer.GetVertexCount()
    spriteBuffer,          \* content of m_spriteBuffer, one entry per quad
    mapped,                \* a BufferMapper holds m_spriteBuffer
    vertices,              \* write cursor of the mapping, in quads
    spriteChainVector,     \* overlayIt.second.spriteChains
    spriteChain,           \* DrawBasicSprites: chain being treated
    spriteChainOffset,     \* offset where the last copy stopped in the chain
    spriteCount,           \* DrawBasicSprites: quads copied by the current fill
    depthSortedSprites,    \* layer.depthSortedSprites: indices into the data
    depthSortedSpriteData, \* layer.depthSortedSpriteData
    it,                    \* DrawOrderedSprites: outer iterator (1-based, end = Len+1)
    it2,                   \* DrawOrderedSprites: fill iterator
    updateVertexBuffer,
    alreadyDrawnCount,
    spriteIndex,
    splitChainIt,
    availableSpriteSpace,
    split,
    lastMaterial,
    lastPipeline,
    lastShader,
    lastOverlay,
    uniformLocation,       \* per shader: what GetUniformLocation resolves
    m_shaderUniforms,      \* cache of ShaderUniforms, keyed by shader
    directionalLights,     \* m_renderQueue.directionalLights
    pointLights,           \* m_renderQueue.pointLights
    spotLights,            \* m_renderQueue.spotLights
    m_lights,              \* the LightIndex list of the last ChooseLights
    chooseArgs,            \* history: the arguments of the last ChooseLights
    opaqueModels,          \* layer.opaqueModels, in iteration order
    m_instancingEnabled,
    instanceBufferCount,   \* Renderer::GetInstanceBuffer()->GetVertexCount()
    rendererStates,        \* Renderer: blend flag, blend function, depth function
    pipelineIt,            \* DrawOpaqueModels: position in layer.opaqueModels
    materialIt,            \* DrawOpaqueModels: position in materialMap
    meshIt,                \* DrawOpaqueModels: position in meshMap
    matrixIt,              \* DrawOpaqueModels: position in instances
    instancing,
    shaderUniforms,
    lightCount,
    lightIndex,
    oldDepthFunc,
    passCount,
    pass,
    statesBefore,          \* history: rendererStates when the object began
    m_maxLightPassPerObject,
    layers,                \* m_renderQueue.layers, in key order
    layerIt,               \* Draw: position in m_renderQueue.layers
    billboards,            \* layer.billboards, in iteration order
    queuedBillboards,      \* history: layer.billboards when DrawBillboards began
    rendererInstancing,    \* Renderer::HasCapability(RendererCap_Instancing)
    billboardPointVertexCount, \* m_billboardPointBuffer.GetVertexCount()
    billboardCount,        \* DrawBillboards: billboards of the material left to draw
    data,                  \* DrawBillboards: billboards of the material already read
    opaqueSprites,         \* layer.opaqueSprites, in iteration order
    depthSortedMeshes,     \* layer.depthSortedMeshes: indices into the data
    depthSortedMeshData,   \* layer.depthSortedMeshData
    meshIndexIt,           \* DrawTransparentModels: position in depthSortedMeshes
    initStep,              \* Initialize: position in the statements of the try block
    errorFlags,            \* Initialize: the error flags in force
    resources,             \* s_quadIndexBuffer, s_quadVertexBuffer, declarations, sampler
    exception,             \* Initialize: the exception in flight, if any
    returned,              \* Initialize: what the calls returned, in order
    indexLoop              \* Initialize: the loop that fills s_quadIndexBuffer

commonVars == <<pc, calls>>
bufferVars == <<spriteVertexCount, spriteBuffer, mapped, vertices>>
basicVars == <<spriteChainVector, spriteChain, spriteCount>>
orderedLocals == <<depthSortedSprites, depthSortedSpriteData, it, it2,
                   updateVertexBuffer, alreadyDrawnCount, spriteIndex, splitChainIt,
                   availableSpriteSpace, split, lastMaterial, lastPipeline,
                   lastOverlay>>
orderedVars == <<orderedLocals, lastShader>>
shaderVars == <<uniformLocation, m_shaderUniforms>>
queueLights == <<directionalLights, pointLights, spotLights>>
lightVars == <<queueLights, m_lights, chooseArgs>>
opaqueInputs == <<opaqueModels, m_instancingEnabled, instanceBufferCount>>
opaqueIts == <<pipelineIt, materialIt, meshIt, matrixIt>>
passVars == <<lightCount, lightIndex, oldDepthFunc, passCount, pass, statesBefore>>
opaqueVars == <<opaqueInputs, rendererStates, opaqueIts, instancing, shaderUniforms,
                passVars>>
drawVars == <<layers, layerIt>>
billboardInputs == <<billboards, queuedBillboards, rendererInstancing,
                     billboardPointVertexCount>>
billboardVars == <<billboardInputs, billboardCount, data>>
transparentVars == <<depthSortedMeshes, depthSortedMeshData, meshIndexIt>>
initVars == <<initStep, errorFlags, resources, exception, returned>>
otherVars == <<opaqueSprites, transparentVars, initVars, indexLoop>>
frameVars == <<m_maxLightPassPerObject, drawVars, billboardVars, otherVars>>
vars == <<commonVars, bufferVars, basicVars, spriteChainOffset, orderedVars, shaderVars,
          lightVars, opaqueVars, frameVars>>

-----------------------------------------------------------------------------
(* Bounds of the model *)

\* chains in one overlay's list (DrawBasicSprites)
MaxChains == 3
\* quads in one sprite chain
MaxChainQuads == 3
\* quads the streaming buffer can hold
MaxCapacity == 3
\* chains in the depth-sorted list (DrawOrderedSprites)
MaxSortedSprites == 2
\* directional, point and spot lights in the render queue
MaxDirLights == 4
MaxPointLights == 2
MaxSpotLights == 1
\* lights of each kind in the queues ChooseLights is called on alone
MaxLightsPerKind == 2

-----------------------------------------------------------------------------
(* Program constants *)

UInt16Max == 65535
s_maxQuads == UInt16Max \div 6

\* What a UInt16 holds after the store of an unsigned value.
StoreUInt16(value) == value % (UInt16Max + 1)

\* The corners of a quad in the order of its two triangles:
\* i*4 + 0, i*4 + 2, i*4 + 1, i*4 + 2, i*4 + 3, i*4 + 1
QuadCorners == <<0, 2, 1, 2, 3, 1>>

\* The six *indices++ = i*4 + c stores of one iteration of the loop of Initialize.
QuadIndices(i) == [k \in 1..6 |-> StoreUInt16(i * 4 + QuadCorners[k])]

\* The loop of Initialize after its last iteration: the counter and the six
\* indices written last.
IndexLoopDone == [i |-> s_maxQuads, indices |-> QuadIndices(s_maxQuads - 1)]

Min(a, b) == IF a < b THEN a ELSE b

Null == "null"

-----------------------------------------------------------------------------
(* Sprite data *)

\* A quad of chain c at position k (0-based) of its vertex array.
Quad(c, k) == <<c, k>>
\* What a quad slot holds when nothing of the current input was written to it.
Garbage == <<0, 0>>

\* The vertex array of the chain with identity c and n quads.
ChainVertices(c, n) == [k \in 1..n |-> Quad(c, k - 1)]

\* SpriteChain_XYZ_Color_UV {vertices, spriteCount}
SpriteChain(c, n) == [vertices |-> ChainVertices(c, n), spriteCount |-> n]

\* Every list of at most MaxChains chains of 0..MaxChainQuads quads each.
ChainLists ==
    UNION {{[c \in 1..len |-> SpriteChain(c, sizes[c])] :
               sizes \in [1..len -> 0..MaxChainQuads]} : len \in 0..MaxChains}

\* Vertex counts of the streaming buffer: 4, 9, 14, ... (1, 2, 3, ... quads, the
\* last quad partial for most).
VertexCounts == {4 * c + ((c - 1) % 4) : c \in 1..MaxCapacity}

FreshBuffer(vertexCount) == [i \in 1..(vertexCount \div 4) |-> Garbage]

\* The quads count quads read by an indexed draw starting at quad first.
ReadQuads(buf, first, count) ==
    [k \in 1..count |-> IF first + k <= Len(buf) THEN buf[first + k] ELSE Garbage]

\* A memcpy that always reads the source from its start.
CopyQuadsFromStart(buf, at, src, from, count) ==
    [i \in 1..Len(buf) |->
        IF at < i /\ i <= at + count THEN src[i - at] ELSE buf[i]]

\* std::memcpy of count quads from src (at quad offset from) to the cursor at.
CopyQuads(buf, at, src, from, count) ==
    [i \in 1..Len(buf) |->
        IF at < i /\ i <= at + count THEN src[from + (i - at)] ELSE buf[i]]

-----------------------------------------------------------------------------
(* History of calls *)

\* Calls kept in the history of DrawBasicSprites: one SetTexture, then a map,
\* an unmap and a draw per fill, and no more fills than quads (or chains).
MaxCalls == 3 * MaxChains * (MaxChainQuads + 1) + 4

\* Calls kept in the history of DrawOrderedSprites: five per chain, a map and
\* an unmap per fill, with room for one fill per quad.
MaxOrderedCalls == 5 * MaxSortedSprites + 2 * MaxSortedSprites * MaxChainQuads + 4

Truncated == [op |-> "Truncated"]

IsTruncated(c) == c # <<>> /\ c[Len(c)].op = "Truncated"

\* The history after the calls evs: it keeps the first cap calls.
EmitUpTo(c, evs, cap) ==
    IF IsTruncated(c) THEN c
    ELSE IF Len(c) + Len(evs) <= cap THEN c \o evs
    ELSE Append(c, Truncated)

Emit(c, evs) == EmitUpTo(c, evs, MaxCalls)

EmitOrdered(c, evs) == EmitUpTo(c, evs, MaxOrderedCalls)

\* A mapper that leaves the buffer as it is.
BufferStaysMapped(m) == m

\* vertexMapper.Unmap(), or the mapper's destructor at the end of its block
BufferUnmap(m) == FALSE

MapCall == [op |-> "Map"]
UnmapCall == [op |-> "Unmap"]
DrawCall(first, count, buf) ==
    [op |-> "Draw", first |-> first, count |-> count,
     quads |-> ReadQuads(buf, first, count)]

\* The draws of a history, in order.
Draws(c) == SelectSeq(c, LAMBDA e : e.op = "Draw")

-----------------------------------------------------------------------------
(* Materials, pipelines and shaders *)

Materials == {"matA", "matB", "matC", "matD"}

\* material->GetPipeline(): matA and matB share a pipeline.
GetPipeline(material) ==
    CASE material = "matA" -> "pipe1"
      [] material = "matB" -> "pipe1"
      [] material = "matC" -> "pipe2"
      [] material = "matD" -> "pipe3"

\* pipelineInstance.uberInstance->GetShader(): pipe1 and pipe2 share a shader.
GetShader(pipeline) ==
    CASE pipeline = "pipe1" -> "shader1"
      [] pipeline = "pipe2" -> "shader1"
      [] pipeline = "pipe3" -> "shader2"

Shaders == {"shader1", "shader2"}

Overlays == {Null, "tex1"}

\* Locations of "Lights[0].type" and "Lights[1].type" in a shader whose light
\* array starts at location 4 with 8 locations per light.
LitLayout == [type0 |-> 4, type1 |-> 12]

\* The uniforms GetShaderUniforms resolves for a shader with the locations loc.
ResolveUniforms(loc) ==
    IF loc.type0 > 0 /\ loc.type1 > 0
    THEN [hasLightUniforms |-> TRUE, lightOffset |-> loc.type1 - loc.type0,
          type |-> loc.type0]
    ELSE [hasLightUniforms |-> FALSE, lightOffset |-> 0, type |-> -1]

\* A lookup that never finds the shader.
AlwaysMiss(cache, shader) == TRUE

\* it == m_shaderUniforms.end() after m_shaderUniforms.find(shader)
CacheMiss(cache, shader) == shader \notin DOMAIN cache

\* m_shaderUniforms after GetShaderUniforms(shader): an entry is resolved and
\* emplaced only when the shader has none.
GetShaderUniforms(cache, shader, locations) ==
    IF ~CacheMiss(cache, shader) THEN cache
    ELSE cache @@ (shader :> ResolveUniforms(locations[shader]))

\* An erase that empties the cache.
ClearUniforms(cache, shader) == <<>>

\* m_shaderUniforms.erase(shader)
EraseUniforms(cache, shader) ==
    [s \in DOMAIN cache \ {shader} |-> cache[s]]

\* The GetUniformLocation calls of a GetShaderUniforms that resolves: three
\* scene uniforms, the two light types and, with a light array, seven fields.
ResolvedLocations(loc) == IF ResolveUniforms(loc).hasLightUniforms THEN 12 ELSE 5

-----------------------------------------------------------------------------
(* Lights of the render queue and their selection (ChooseLights) *)

Abs(x) == IF x < 0 THEN -x ELSE x

\* Spheref {position, radius}, on one axis
Sphere(position, radius) == [position |-> position, radius |-> radius]

\* Spheref::SquaredDistance: squared distance from the sphere's surface
SquaredDistance(sphere, point) ==
    LET d == Abs(point - sphere.position) - sphere.radius
    IN IF d > 0 THEN d * d ELSE 0

\* A directional light always suits; its score is a property of the light.
IsDirectionalLightSuitable(object, light) == TRUE
ComputeDirectionalLightScore(object, light) == light.score

\* A point or spot light suits the objects within its radius, the nearest first.
IsPointLightSuitable(object, light) ==
    SquaredDistance(object, light.position) <= light.radius * light.radius
ComputePointLightScore(object, light) == SquaredDistance(object, light.position)

IsSpotLightSuitable(object, light) ==
    SquaredDistance(object, light.position) <= light.radius * light.radius
ComputeSpotLightScore(object, light) == SquaredDistance(object, light.position)

\* LightIndex {type, score, index}
LightIndex(type, score, index) == [type |-> type, score |-> score, index |-> index]

IsLightSuitable(type, object, light) ==
    CASE type = "Directional" -> IsDirectionalLightSuitable(object, light)
      [] type = "Point" -> IsPointLightSuitable(object, light)
      [] type = "Spot" -> IsSpotLightSuitable(object, light)

ComputeLightScore(type, object, light) ==
    CASE type = "Directional" -> ComputeDirectionalLightScore(object, light)
      [] type = "Point" -> ComputePointLightScore(object, light)
      [] type = "Spot" -> ComputeSpotLightScore(object, light)

\* The entries a loop of ChooseLights pushes for one kind, in index order.
RECURSIVE PushSuitable(_, _, _, _)
PushSuitable(type, lights, object, i) ==
    IF i > Len(lights) THEN <<>>
    ELSE (IF IsLightSuitable(type, object, lights[i])
          THEN <<LightIndex(type, ComputeLightScore(type, object, lights[i]), i - 1)>>
          ELSE <<>>)
         \o PushSuitable(type, lights, object, i + 1)

\* What std::sort can make of s[i], i \in S, under the comparison by score:
\* every order that is non-decreasing in score.
RECURSIVE SortOutcomes(_, _)
SortOutcomes(s, S) ==
    IF S = {} THEN {<<>>}
    ELSE UNION {{<<s[i]>> \o r : r \in SortOutcomes(s, S \ {i})} :
                   i \in {j \in S : \A k \in S : s[j].score <= s[k].score}}

\* A sort that leaves the list in the order of the pushes.
KeepPushOrder(s) == {s}

StdSortByScore(s) == SortOutcomes(s, 1..Len(s))

\* A list that is not cleared: the entries of the previous call stay.
KeepLights(old) == old

\* m_lights.clear()
ClearLights(old) == <<>>

\* The lists ChooseLights(object, includeDirectionalLights) can leave in m_lights.
ChooseLights(old, object, includeDirectionalLights, dirs, points, spots) ==
    StdSortByScore(
        ClearLights(old)
        \o (IF includeDirectionalLights
            THEN PushSuitable("Directional", dirs, object, 1)
            ELSE <<>>)
        \o PushSuitable("Point", points, object, 1)
        \o PushSuitable("Spot", spots, object, 1))

\* Sequences of at most n elements of S.
SeqsUpTo(S, n) == UNION {[1..len -> S] : len \in 0..n}

\* Light sources of the selection's inputs.
DirectionalLightChoices == {[score |-> 0], [score |-> 10]}
PointLightChoices == {[position |-> 2, radius |-> 2], [position |-> 6, radius |-> 2]}
SpotLightChoices == {[position |-> 3, radius |-> 3], [position |-> 12, radius |-> 3]}

\* Bounding spheres of the objects.
ObjectSpheres == {Sphere(0, 1), Sphere(8, 1)}

NoChoice == [called |-> FALSE, object |-> Sphere(0, 0), include |-> FALSE]

LightsIdle ==
    /\ directionalLights = <<>>
    /\ pointLights = <<>>
    /\ spotLights = <<>>
    /\ m_lights = <<>>
    /\ chooseArgs = NoChoice

-----------------------------------------------------------------------------
(* Opaque meshes: batches, render states and light passes *)

\* NAZARA_GRAPHICS_MAX_LIGHT_PER_PASS
MaxLightPerPass == 3

\* NAZARA_GRAPHICS_INSTANCING_MIN_INSTANCES_COUNT
InstancingMinInstancesCount == 10

RenderStates(blend, srcBlend, dstBlend, depthFunc) ==
    [blend |-> blend, blendFunc |-> <<srcBlend, dstBlend>>, depthFunc |-> depthFunc]

\* The render states a pipeline sets when applied.
PipelineStates(pipeline) ==
    CASE pipeline = "pipe1" -> RenderStates(FALSE, "One", "Zero", "LessOrEqual")
      [] pipeline = "pipe2" -> RenderStates(TRUE, "SrcAlpha", "InvSrcAlpha", "Less")
      [] pipeline = "pipe3" -> RenderStates(FALSE, "One", "Zero", "Less")

DefaultStates == RenderStates(FALSE, "One", "Zero", "Less")

\* Renderer::Enable(RendererParameter_Blend, true); SetBlendFunc(One, One);
\* SetDepthFunc(RendererComparison_Equal)
AdditiveStates == RenderStates(TRUE, "One", "One", "Equal")

\* if (pass == 1) { ... }
PassStates(states, p) == IF p = 1 THEN AdditiveStates ELSE states

\* Renderer::Enable(RendererParameter_Blend, false); SetDepthFunc(oldDepthFunc)
RestoredStates(states, depthFunc) ==
    [states EXCEPT !.blend = FALSE, !.depthFunc = depthFunc]

\* pipeline->Apply(flags).uberInstance->GetShader(): the instancing flag selects
\* another permutation of the pipeline's shader.
GetInstanceShader(pipeline, withInstancing) ==
    IF withInstancing
    THEN (CASE GetShader(pipeline) = "shader1" -> "shader1i"
            [] GetShader(pipeline) = "shader2" -> "shader2i")
    ELSE GetShader(pipeline)

\* A comparison that sees every pipeline as a change of shader.
AlwaysChanged(shader, last) == TRUE

\* shader != lastShader
ShaderChanged(shader, last) == shader # last

OpaqueShaders == Shaders \cup {"shader1i", "shader2i"}

UnlitLayout == [type0 |-> -1, type1 |-> -1]

\* shader1 and its instancing permutation have the light array, shader2 has not.
OpaqueUniformLocations ==
    [s \in OpaqueShaders |-> IF s \in {"shader1", "shader1i"} THEN LitLayout
                             ELSE UnlitLayout]

\* A pass count that forgets the partial last pass.
PassCountFloor(count) == IF count = 0 THEN 1 ELSE count \div MaxLightPerPass

\* (lightCount == 0) ? 1 : (lightCount - 1) / NAZARA_GRAPHICS_MAX_LIGHT_PER_PASS + 1
PassCount(count) == IF count = 0 THEN 1 ELSE (count - 1) \div MaxLightPerPass + 1

\* m_renderQueue: the light lists of the frame
RenderQueue(dirs, points, spots) ==
    [directionalLights |-> dirs, pointLights |-> points, spotLights |-> spots]

m_renderQueue == RenderQueue(directionalLights, pointLights, spotLights)

\* The queue's light a LightIndex refers to; the read is out of range when the
\* list was chosen on other light lists.
QueueLight(lightInfo, queue) ==
    LET lights == CASE lightInfo.type = "Directional" -> queue.directionalLights
                    [] lightInfo.type = "Point" -> queue.pointLights
                    [] lightInfo.type = "Spot" -> queue.spotLights
    IN IF lightInfo.index < Len(lights) THEN <<lights[lightInfo.index + 1]>> ELSE <<>>

\* A send that disables the slot whatever the list holds.
DisableLightUniforms(shader, uniforms, index, lightIdx, uniformOffset, chosen, queue) ==
    <<[op |-> "SendLight", shader |-> shader,
       location |-> uniforms.type + uniformOffset, slot |-> index,
       type |-> "Disabled", index |-> 0, light |-> <<>>]>>

\* SendLightUniforms(shader, uniforms, index, lightIndex, uniformOffset): the
\* calls it makes on the shader.
SendLightUniforms(shader, uniforms, index, lightIdx, uniformOffset, chosen, queue) ==
    IF lightIdx < Len(chosen)
    THEN LET lightInfo == chosen[lightIdx + 1]
         IN <<[op |-> "SendLight", shader |-> shader,
               location |-> uniforms.type + uniformOffset, slot |-> index,
               type |-> lightInfo.type, index |-> lightInfo.index,
               light |-> QueueLight(lightInfo, queue)]>>
    ELSE IF uniforms.type # -1
         THEN <<[op |-> "SendLight", shader |-> shader,
                 location |-> uniforms.type + uniformOffset, slot |-> index,
                 type |-> "Disabled", index |-> 0, light |-> <<>>]>>
         ELSE <<>>

\* for (i = 0; i < NAZARA_GRAPHICS_MAX_LIGHT_PER_PASS; ++i)
\*     SendLightUniforms(shader, lightUniforms, i, lightIndex++, lightOffset * i)
RECURSIVE SendPassLights(_, _, _, _, _, _)
SendPassLights(shader, uniforms, i, lightIdx, chosen, queue) ==
    IF i >= MaxLightPerPass THEN <<>>
    ELSE SendLightUniforms(shader, uniforms, i, lightIdx + i,
                           uniforms.lightOffset * i, chosen, queue)
         \o SendPassLights(shader, uniforms, i + 1, lightIdx, chosen, queue)

\* A chunk that takes every instance left.
RenderedAllInstances(instanceCount, maxInstanceCount) == instanceCount

\* std::min(instanceCount, maxInstanceCount)
RenderedInstanceCount(instanceCount, maxInstanceCount) ==
    Min(instanceCount, maxInstanceCount)

\* while (instanceCount > 0): one fill of the instance buffer and one instanced
\* draw per chunk of at most maxInstanceCount matrices.
RECURSIVE DrawInstanceChunks(_, _, _, _, _, _)
DrawInstanceChunks(object, p, states, instances, from, maxInstanceCount) ==
    LET instanceCount == Len(instances) - from
        renderedInstanceCount == RenderedInstanceCount(instanceCount, maxInstanceCount)
        matrices == SubSeq(instances, from + 1, from + renderedInstanceCount)
    IN IF instanceCount <= 0 THEN <<>>
       ELSE <<[op |-> "Fill", matrices |-> matrices],
              [op |-> "DrawInstanced", object |-> object, pass |-> p,
               count |-> renderedInstanceCount, matrices |-> matrices,
               states |-> states]>>
            \o DrawInstanceChunks(object, p, states, instances,
                                  from + renderedInstanceCount, maxInstanceCount)

\* drawFunc(meshData.primitiveMode, 0, indexCount) for one instance
DrawMeshCall(object, p, states, matrix) ==
    [op |-> "DrawMesh", object |-> object, pass |-> p, count |-> 1,
     matrices |-> <<matrix>>, states |-> states]

\* One draw for the whole instance list.
DrawFirstInstance(mesh, instances, states) ==
    <<[op |-> "DrawMesh", object |-> <<mesh[1], mesh[2], mesh[3], 1>>, pass |-> 0,
       count |-> 1, matrices |-> <<instances[1]>>, states |-> states]>>

\* The draws of the unlit path without instancing, one per instance.
DrawEachInstance(mesh, instances, states) ==
    [i \in 1..Len(instances) |->
        DrawMeshCall(<<mesh[1], mesh[2], mesh[3], i>>, 0, states, instances[i])]

\* A test that takes every batch as enabled.
AlwaysEnabled(entry) == TRUE

\* if (pipelineEntry.enabled), if (matEntry.enabled)
BatchEnabled(entry) == entry.enabled

\* ForwardRenderQueue batches: mesh entry, material entry, pipeline entry.
MeshEntry(mesh, instances) ==
    [mesh |-> mesh, squaredBoundingSphere |-> Sphere(0, 1), instances |-> instances]

MaterialEntry(material, enabled, meshMap) ==
    [material |-> material, enabled |-> enabled, meshMap |-> meshMap]

MaxOf(S) == IF S = {} THEN 0 ELSE CHOOSE x \in S : \A y \in S : y <= x

\* maxInstanceCount is the largest instance list of the pipeline's meshes.
PipelineEntry(pipeline, materialMap) ==
    [pipeline |-> pipeline, materialMap |-> materialMap,
     maxInstanceCount |->
        MaxOf(UNION {{Len(materialMap[m].meshMap[k].instances) :
                         k \in DOMAIN materialMap[m].meshMap} :
                     m \in DOMAIN materialMap})]

NoUniforms == [hasLightUniforms |-> FALSE, lightOffset |-> 0, type |-> -1]

OpaqueIdle ==
    /\ opaqueModels = <<>>
    /\ m_instancingEnabled = TRUE
    /\ instanceBufferCount = 1
    /\ rendererStates = DefaultStates
    /\ pipelineIt = 1
    /\ materialIt = 1
    /\ meshIt = 1
    /\ matrixIt = 1
    /\ instancing = FALSE
    /\ shaderUniforms = NoUniforms
    /\ lightCount = 0
    /\ lightIndex = 0
    /\ oldDepthFunc = DefaultStates.depthFunc
    /\ passCount = 0
    /\ pass = 0
    /\ statesBefore = DefaultStates

\* m_maxLightPassPerObject(3)
DefaultMaxLightPassPerObject == 3

\* What the constructor leaves, and the parts of a frame that are not running.
DrawIdle ==
    /\ layers = <<>>
    /\ layerIt = 1

\* No DrawBillboards is running.
BillboardsIdle ==
    /\ billboards = <<>>
    /\ queuedBillboards = <<>>
    /\ rendererInstancing = TRUE
    /\ billboardPointVertexCount = 4
    /\ billboardCount = 0
    /\ data = 0

\* No DrawTransparentModels is running.
TransparentIdle ==
    /\ depthSortedMeshes = <<>>
    /\ depthSortedMeshData = <<>>
    /\ meshIndexIt = 1

\* s_quadIndexBuffer, s_quadVertexBuffer, the billboard declarations and
\* s_shadowSampler as Initialize left them.
InitializedResources ==
    [quadIndexBuffer |-> "filled", mapped |-> FALSE, quadVertexBuffer |-> "filled",
     billboardVertexDeclaration |-> 4, billboardInstanceDeclaration |-> 3,
     shadowSampler |-> 2]

NoException == "none"

\* Initialize has run and none is running.
InitializeIdle ==
    /\ initStep = 0
    /\ errorFlags = {}
    /\ resources = InitializedResources
    /\ exception = NoException
    /\ returned = <<TRUE>>
    /\ indexLoop = IndexLoopDone

FrameIdle ==
    /\ m_maxLightPassPerObject = DefaultMaxLightPassPerObject
    /\ DrawIdle
    /\ BillboardsIdle
    /\ opaqueSprites = <<>>
    /\ TransparentIdle
    /\ InitializeIdle

\* No sprite submitter is running.
SpritesIdle ==
    /\ spriteVertexCount = 4
    /\ spriteBuffer = FreshBuffer(4)
    /\ mapped = FALSE
    /\ vertices = 0
    /\ spriteChainVector = <<>>
    /\ spriteChain = 0
    /\ spriteChainOffset = 0
    /\ spriteCount = 0

-----------------------------------------------------------------------------
(* Batch capacity of the sprite submitters *)

\* std::min<std::size_t>(s_maxQuads, m_spriteBuffer.GetVertexCount() / 4)
MaxSpriteCount(vertexCount) == Min(s_maxQuads, vertexCount \div 4)

maxSpriteCount == MaxSpriteCount(spriteVertexCount)

\* BufferMapper(m_spriteBuffer, BufferAccess_DiscardAndWrite): the previous
\* content is undefined afterwards; the storage is either kept or replaced.
DiscardedBuffers(buf) == {buf, [i \in 1..Len(buf) |-> Garbage]}

-----------------------------------------------------------------------------
(* DrawBasicSprites: the packer of one overlay's sprite chains *)

\* A copy count that forgets the quads the current fill already holds.
BasicCopyCountNoUsed(max, copied, chainQuads, offset) ==
    Min(max, chainQuads - offset)

\* Quads copied by one step of the inner loop.
BasicCopyCount(max, copied, chainQuads, offset) ==
    Min(max - copied, chainQuads - offset)

\* Condition of the inner do-while.
BasicCopyAgain(copied, max, chain, chainCount) ==
    copied < max /\ chain < chainCount

\* Condition of the outer do-while.
BasicFillAgain(chain, chainCount) == chain < chainCount

OrderedIdle ==
    /\ depthSortedSprites = <<>>
    /\ depthSortedSpriteData = <<>>
    /\ it = 1
    /\ it2 = 1
    /\ updateVertexBuffer = TRUE
    /\ alreadyDrawnCount = 0
    /\ spriteIndex = 0
    /\ splitChainIt = 1
    /\ availableSpriteSpace = 0
    /\ split = FALSE
    /\ lastMaterial = Null
    /\ lastPipeline = Null
    /\ lastShader = Null
    /\ lastOverlay = Null

ShaderIdle ==
    /\ uniformLocation = [s \in Shaders |-> LitLayout]
    /\ m_shaderUniforms = <<>>

\* m_spriteBuffer as the constructor leaves it, of one of the given vertex counts
BufferInitOf(vertexCounts) ==
    /\ spriteVertexCount \in vertexCounts
    /\ spriteBuffer = FreshBuffer(spriteVertexCount)
    /\ mapped = FALSE
    /\ vertices = 0

BufferInit == BufferInitOf(VertexCounts)

\* DrawBasicSprites is entered with one of the given buffers and chain lists.
InitBasicOn(vertexCounts, chainLists) ==
    /\ pc = "b_overlay"
    /\ calls = <<>>
    /\ BufferInitOf(vertexCounts)
    /\ spriteChainVector \in chainLists
    /\ spriteChain = 0
    /\ spriteChainOffset = 0
    /\ spriteCount = 0
    /\ OrderedIdle
    /\ ShaderIdle
    /\ LightsIdle
    /\ OpaqueIdle
    /\ FrameIdle

InitBasic == InitBasicOn(VertexCounts, ChainLists)

\* if (spriteChainCount > 0) { SetTexture; spriteChain = 0; spriteChainOffset = 0; do ...
BasicOverlay ==
    /\ pc = "b_overlay"
    /\ IF Len(spriteChainVector) > 0
       THEN /\ calls' = Emit(calls, <<[op |-> "SetTexture"]>>)
            /\ spriteChain' = 0
            /\ spriteChainOffset' = 0
            /\ pc' = "b_map"
       ELSE /\ pc' = "done"
            /\ UNCHANGED <<calls, spriteChain, spriteChainOffset>>
    /\ UNCHANGED <<bufferVars, spriteChainVector, spriteCount, orderedVars, shaderVars, lightVars, opaqueVars, frameVars>>

\* BufferMapper<VertexBuffer> vertexMapper(...); vertices = GetPointer(); spriteCount = 0;
BasicMap ==
    /\ pc = "b_map"
    /\ mapped' = TRUE
    /\ spriteBuffer' \in DiscardedBuffers(spriteBuffer)
    /\ vertices' = 0
    /\ spriteCount' = 0
    /\ calls' = Emit(calls, <<MapCall>>)
    /\ pc' = "b_copy"
    /\ UNCHANGED <<spriteVertexCount, spriteChainVector, spriteChain,
                   spriteChainOffset, orderedVars, shaderVars, lightVars, opaqueVars, frameVars>>

\* One iteration of the inner do-while.
BasicCopy ==
    /\ pc = "b_copy"
    /\ LET currentChain == spriteChainVector[spriteChain + 1]
           count == BasicCopyCount(maxSpriteCount, spriteCount,
                                   currentChain.spriteCount, spriteChainOffset)
           offset == spriteChainOffset + count
           treated == offset = currentChain.spriteCount
           nextChain == IF treated THEN spriteChain + 1 ELSE spriteChain
       IN /\ spriteBuffer' = CopyQuads(spriteBuffer, vertices, currentChain.vertices,
                                       spriteChainOffset, count)
          /\ vertices' = vertices + count
          /\ spriteCount' = spriteCount + count
          /\ spriteChain' = nextChain
          /\ spriteChainOffset' = IF treated THEN 0 ELSE offset
          /\ pc' = IF BasicCopyAgain(spriteCount + count, maxSpriteCount,
                                     nextChain, Len(spriteChainVector))
                   THEN "b_copy" ELSE "b_unmap"
    /\ UNCHANGED <<calls, spriteVertexCount, mapped, spriteChainVector, orderedVars, shaderVars, lightVars, opaqueVars, frameVars>>

\* vertexMapper.Unmap();
BasicUnmap ==
    /\ pc = "b_unmap"
    /\ mapped' = BufferUnmap(mapped)
    /\ calls' = Emit(calls, <<UnmapCall>>)
    /\ pc' = "b_draw"
    /\ UNCHANGED <<spriteVertexCount, spriteBuffer, vertices, basicVars,
                   spriteChainOffset, orderedVars, shaderVars, lightVars, opaqueVars, frameVars>>

\* Renderer::DrawIndexedPrimitives(PrimitiveMode_TriangleList, 0, spriteCount * 6);
BasicDraw ==
    /\ pc = "b_draw"
    /\ calls' = Emit(calls, <<DrawCall(0, spriteCount, spriteBuffer)>>)
    /\ pc' = IF BasicFillAgain(spriteChain, Len(spriteChainVector))
             THEN "b_map" ELSE "done"
    /\ UNCHANGED <<bufferVars, basicVars, spriteChainOffset, orderedVars, shaderVars, lightVars, opaqueVars, frameVars>>

NextBasic ==
    \/ BasicOverlay
    \/ BasicMap
    \/ BasicCopy
    \/ BasicUnmap
    \/ BasicDraw

SpecBasic == InitBasic /\ [][NextBasic]_vars

-----------------------------------------------------------------------------
(* Properties of DrawBasicSprites *)

RECURSIVE SumCounts(_)
SumCounts(s) == IF s = <<>> THEN 0 ELSE s[1].count + SumCounts(Tail(s))

RECURSIVE TotalQuads(_)
TotalQuads(chains) ==
    IF chains = <<>> THEN 0 ELSE chains[1].spriteCount + TotalQuads(Tail(chains))

RECURSIVE ConcatQuads(_)
ConcatQuads(s) == IF s = <<>> THEN <<>> ELSE s[1].quads \o ConcatQuads(Tail(s))

RECURSIVE ConcatVertices(_)
ConcatVertices(chains) ==
    IF chains = <<>> THEN <<>> ELSE chains[1].vertices \o ConcatVertices(Tail(chains))

\* ceil(n / c) draws when n % c # 0, n / c draws otherwise
ExpectedDraws(n, c) == IF n % c # 0 THEN n \div c + 1 ELSE n \div c

BasicDone == pc = "done" /\ ~IsTruncated(calls)

NoEmptyChain(chains) == \A c \in 1..Len(chains) : chains[c].spriteCount > 0

\* C1 (as stated): for every chain list with N quads in total and capacity C,
\* the packer has issued ExpectedDraws(N, C) draws when it returns, each of at
\* most C quads, and the draws' quad counts sum to N.
C1_DrawCountAnyList ==
    pc = "done" =>
        /\ Len(Draws(calls)) = ExpectedDraws(TotalQuads(spriteChainVector), maxSpriteCount)
        /\ \A d \in 1..Len(Draws(calls)) : Draws(calls)[d].count <= maxSpriteCount
        /\ SumCounts(Draws(calls)) = TotalQuads(spriteChainVector)

\* C1 (amended): every draw covers at most C quads; when the packer returns the
\* draws' quad counts sum to N; and when no chain of the list is empty the
\* number of draws is ExpectedDraws(N, C).
C1_DrawCount ==
    /\ ~IsTruncated(calls)
    /\ \A d \in 1..Len(Draws(calls)) : Draws(calls)[d].count <= maxSpriteCount
    /\ pc = "done" =>
          /\ SumCounts(Draws(calls)) = TotalQuads(spriteChainVector)
          /\ NoEmptyChain(spriteChainVector) =>
                Len(Draws(calls)) =
                    ExpectedDraws(TotalQuads(spriteChainVector), maxSpriteCount)

\* C1 witness: a list of non-empty chains with N > C and N % C # 0 was packed
\* into several draws.
C1_Witness ==
    /\ BasicDone
    /\ NoEmptyChain(spriteChainVector)
    /\ TotalQuads(spriteChainVector) > maxSpriteCount
    /\ TotalQuads(spriteChainVector) % maxSpriteCount # 0
    /\ Len(Draws(calls)) >= 2

\* C2: when the packer returns, the quads read by the draws, concatenated in
\* draw order, are the chains' quads concatenated in chain order.
C2_RoundTrip ==
    pc = "done" =>
        /\ ~IsTruncated(calls)
        /\ ConcatQuads(Draws(calls)) = ConcatVertices(spriteChainVector)

\* C2 witness: a chain was split across two fills (one draw ends and the next
\* draw starts inside the same chain).
C2_Witness ==
    /\ BasicDone
    /\ \E d \in 1..(Len(Draws(calls)) - 1) :
          LET a == Draws(calls)[d]
              b == Draws(calls)[d + 1]
          IN /\ a.count > 0
             /\ b.count > 0
             /\ a.quads[a.count][1] = b.quads[1][1]

-----------------------------------------------------------------------------
(* DrawOrderedSprites: the packer of the depth-sorted sprite chains *)

\* UnbatchedSpriteData {spriteCount, material, overlay, vertices} of entry c
UnbatchedSpriteData(c, n, material, overlay) ==
    [spriteCount |-> n, material |-> material, overlay |-> overlay,
     vertices |-> ChainVertices(c, n)]

\* Every layer.depthSortedSpriteData of at most maxLen entries.
SortedSpriteDatas(maxLen) ==
    UNION {{[c \in 1..len |->
                UnbatchedSpriteData(c, sizes[c], mats[c], ovs[c])] :
               sizes \in [1..len -> 0..MaxChainQuads],
               mats \in [1..len -> Materials],
               ovs \in [1..len -> Overlays]} : len \in 0..maxLen}

\* The depth order of n entries: the data's last entry is the farthest.
SortedOrders(n) == {[i \in 1..n |-> n + 1 - i]}

\* layer.depthSortedSprites.end()
SpritesEnd == Len(depthSortedSprites) + 1

\* Quads copied for one chain by the fill loop.
OrderedCopyCount(available, chainQuads, offset) ==
    Min(available, chainQuads - offset)

\* if (count != spriteData.spriteCount): "not enough space to store current chain"
OrderedChainSplit(count, chainQuads, offset) == count # chainQuads

\* Quads of the draw of a chain that is not the split chain.
OrderedWholeCount(chainQuads, alreadyDrawn) == chainQuads - alreadyDrawn

\* Quads of the draw of the split chain.
OrderedSplitCount(offset) == offset

\* DrawOrderedSprites is entered with one of the given buffers and sorted lists.
InitOrderedOn(vertexCounts, spriteDatas) ==
    /\ pc = "o_begin"
    /\ calls = <<>>
    /\ BufferInitOf(vertexCounts)
    /\ spriteChainVector = <<>>
    /\ spriteChain = 0
    /\ spriteCount = 0
    /\ spriteChainOffset = 0
    /\ depthSortedSpriteData \in spriteDatas
    /\ depthSortedSprites \in SortedOrders(Len(depthSortedSpriteData))
    /\ it = 1
    /\ it2 = 1
    /\ updateVertexBuffer = TRUE
    /\ alreadyDrawnCount = 0
    /\ spriteIndex = 0
    /\ splitChainIt = 1
    /\ availableSpriteSpace = 0
    /\ split = FALSE
    /\ lastMaterial = Null
    /\ lastPipeline = Null
    /\ lastShader = Null
    /\ lastOverlay = Null
    /\ ShaderIdle
    /\ LightsIdle
    /\ OpaqueIdle
    /\ FrameIdle

InitOrdered == InitOrderedOn(VertexCounts, SortedSpriteDatas(MaxSortedSprites))

\* The locals of DrawOrderedSprites and the first test of the outer loop.
OrderedBegin ==
    /\ pc = "o_begin"
    /\ lastMaterial' = Null
    /\ lastPipeline' = Null
    /\ lastShader' = Null
    /\ lastOverlay' = Null
    /\ updateVertexBuffer' = TRUE
    /\ alreadyDrawnCount' = 0
    /\ spriteIndex' = 0
    /\ spriteChainOffset' = 0
    /\ splitChainIt' = SpritesEnd
    /\ it' = 1
    /\ pc' = IF 1 # SpritesEnd THEN "o_map" ELSE "done"
    /\ UNCHANGED <<calls, bufferVars, basicVars, depthSortedSprites,
                   depthSortedSpriteData, it2, availableSpriteSpace, split,
                   shaderVars, lightVars, opaqueVars, frameVars>>

\* if (updateVertexBuffer) { BufferMapper vertexMapper(...); ... it2 = it
OrderedMap ==
    /\ pc = "o_map"
    /\ mapped' = TRUE
    /\ spriteBuffer' \in DiscardedBuffers(spriteBuffer)
    /\ vertices' = 0
    /\ availableSpriteSpace' = maxSpriteCount
    /\ split' = FALSE
    /\ it2' = it
    /\ calls' = EmitOrdered(calls, <<MapCall>>)
    /\ pc' = IF it # SpritesEnd THEN "o_copy" ELSE "o_fillend"
    /\ UNCHANGED <<spriteVertexCount, basicVars, spriteChainOffset,
                   depthSortedSprites, depthSortedSpriteData, it,
                   updateVertexBuffer, alreadyDrawnCount, spriteIndex,
                   splitChainIt, lastMaterial, lastPipeline, lastShader,
                   lastOverlay, shaderVars, lightVars, opaqueVars, frameVars>>

\* One iteration of the fill loop over it2.
OrderedCopy ==
    /\ pc = "o_copy"
    /\ LET spriteData == depthSortedSpriteData[depthSortedSprites[it2]]
           count == OrderedCopyCount(availableSpriteSpace, spriteData.spriteCount,
                                     spriteChainOffset)
           isSplit == OrderedChainSplit(count, spriteData.spriteCount,
                                        spriteChainOffset)
       IN /\ spriteBuffer' = CopyQuads(spriteBuffer, vertices, spriteData.vertices,
                                       spriteChainOffset, count)
          /\ vertices' = vertices + count
          /\ availableSpriteSpace' = availableSpriteSpace - count
          /\ IF isSplit
             THEN /\ spriteChainOffset' = spriteChainOffset + count
                  /\ splitChainIt' = it2
                  /\ split' = TRUE
                  /\ it2' = it2
                  /\ pc' = "o_fillend"
             ELSE /\ spriteChainOffset' = 0
                  /\ it2' = it2 + 1
                  /\ pc' = IF it2 + 1 # SpritesEnd THEN "o_copy" ELSE "o_fillend"
                  /\ UNCHANGED <<splitChainIt, split>>
    /\ UNCHANGED <<calls, spriteVertexCount, mapped, basicVars,
                   depthSortedSprites, depthSortedSpriteData, it,
                   updateVertexBuffer, alreadyDrawnCount, spriteIndex,
                   lastMaterial, lastPipeline, lastShader, lastOverlay, shaderVars, lightVars, opaqueVars, frameVars>>

\* spriteIndex = 0; updateVertexBuffer = false; if (!split) splitChainIt = end;
\* the mapper unmaps the buffer when its block ends.
OrderedFillEnd ==
    /\ pc = "o_fillend"
    /\ spriteIndex' = 0
    /\ updateVertexBuffer' = FALSE
    /\ splitChainIt' = IF ~split THEN SpritesEnd ELSE splitChainIt
    /\ mapped' = BufferUnmap(mapped)
    /\ calls' = EmitOrdered(calls, <<UnmapCall>>)
    /\ pc' = "o_draw"
    /\ UNCHANGED <<spriteVertexCount, spriteBuffer, vertices, basicVars,
                   spriteChainOffset, depthSortedSprites, depthSortedSpriteData,
                   it, it2, alreadyDrawnCount, availableSpriteSpace, split,
                   lastMaterial, lastPipeline, lastShader, lastOverlay, shaderVars, lightVars, opaqueVars, frameVars>>

\* The rest of one iteration of the outer loop: state binding, the draw, and
\* the loop's test.
OrderedDraw ==
    /\ pc = "o_draw"
    /\ LET spriteData == depthSortedSpriteData[depthSortedSprites[it]]
           material == spriteData.material
           newMaterial == material # lastMaterial
           pipeline == GetPipeline(material)
           newPipeline == newMaterial /\ pipeline # lastPipeline
           shader == GetShader(pipeline)
           newShader == newPipeline /\ shader # lastShader
           overlay == IF spriteData.overlay # Null THEN spriteData.overlay
                      ELSE "whiteTexture"
           newOverlay == overlay # lastOverlay
           whole == it # splitChainIt
           count == IF whole
                    THEN OrderedWholeCount(spriteData.spriteCount, alreadyDrawnCount)
                    ELSE OrderedSplitCount(spriteChainOffset)
           nextIt == IF whole THEN it + 1 ELSE it
           nextUpdate == IF whole THEN updateVertexBuffer ELSE TRUE
       IN /\ lastMaterial' = material
          /\ lastPipeline' = IF newPipeline THEN pipeline ELSE lastPipeline
          /\ lastShader' = IF newShader THEN shader ELSE lastShader
          /\ lastOverlay' = overlay
          /\ m_shaderUniforms' =
                IF newShader
                THEN GetShaderUniforms(m_shaderUniforms, shader, uniformLocation)
                ELSE m_shaderUniforms
          /\ alreadyDrawnCount' = IF whole THEN 0 ELSE count
          /\ it' = nextIt
          /\ updateVertexBuffer' = nextUpdate
          /\ calls' = EmitOrdered(calls,
                (IF newPipeline
                 THEN <<[op |-> "ApplyPipeline", pipeline |-> pipeline]>> ELSE <<>>)
                \o (IF newShader
                    THEN <<[op |-> "SendSceneUniforms", shader |-> shader]>> ELSE <<>>)
                \o (IF newMaterial
                    THEN <<[op |-> "ApplyMaterial", material |-> material]>> ELSE <<>>)
                \o (IF newOverlay
                    THEN <<[op |-> "SetTexture", texture |-> overlay]>> ELSE <<>>)
                \o <<DrawCall(spriteIndex, count, spriteBuffer)>>)
          /\ spriteIndex' = spriteIndex + count
          /\ pc' = IF nextIt = SpritesEnd THEN "done"
                   ELSE IF nextUpdate THEN "o_map" ELSE "o_draw"
    /\ UNCHANGED <<bufferVars, basicVars, spriteChainOffset, depthSortedSprites,
                   depthSortedSpriteData, it2, splitChainIt, availableSpriteSpace,
                   split, uniformLocation, lightVars, opaqueVars, frameVars>>

NextOrdered ==
    \/ OrderedBegin
    \/ OrderedMap
    \/ OrderedCopy
    \/ OrderedFillEnd
    \/ OrderedDraw

SpecOrdered == InitOrdered /\ [][NextOrdered]_vars

\* The submission runs to completion on the rendering thread: a step that can
\* be taken is taken.
FairSpecOrdered == SpecOrdered /\ WF_vars(NextOrdered)

-----------------------------------------------------------------------------
(* Properties of DrawOrderedSprites *)

\* The chains in depth-sorted order.
SortedChains == [i \in 1..Len(depthSortedSprites) |->
                    depthSortedSpriteData[depthSortedSprites[i]]]

AllChainsPositive == \A i \in 1..Len(SortedChains) : SortedChains[i].spriteCount > 0

IsPrefix(a, b) == Len(a) <= Len(b) /\ a = SubSeq(b, 1, Len(a))

OneChainOf(n) == Len(SortedChains) = 1 /\ SortedChains[1].spriteCount = n

\* C3: for every sequence of chains with positive quad counts and every
\* capacity C >= 1, the submission loop eventually returns.
C3_Terminates ==
    (AllChainsPositive /\ maxSpriteCount >= 1) => <>(pc = "done")

\* C4: a single chain of exactly C quads gives exactly one draw of C quads and
\* no carry-over; a single chain of C + 1 quads gives exactly two draws, of C
\* quads and then of exactly 1 quad, the quad at offset C of the chain.
C4_CapacityBoundary ==
    LET d == Draws(calls)
        C == maxSpriteCount
    IN ~IsTruncated(calls) =>
        /\ OneChainOf(C) =>
              /\ Len(d) <= 1
              /\ pc = "done" =>
                    /\ Len(d) = 1
                    /\ d[1].count = C
                    /\ alreadyDrawnCount = 0
        /\ OneChainOf(C + 1) =>
              /\ Len(d) <= 2
              /\ Len(d) >= 1 => d[1].count = C
              /\ Len(d) >= 2 =>
                    /\ d[2].count = 1
                    /\ d[2].quads = <<SortedChains[1].vertices[C + 1]>>
              /\ pc = "done" => Len(d) = 2

\* C5: the quads drawn so far, in draw order, are the first quads of the
\* chains in depth-sorted order, each once; when the loop returns they are all
\* of them and the draws' quad counts sum to N.
C5_OrderedCoverage ==
    ~IsTruncated(calls) =>
        /\ IsPrefix(ConcatQuads(Draws(calls)), ConcatVertices(SortedChains))
        /\ pc = "done" =>
              /\ ConcatQuads(Draws(calls)) = ConcatVertices(SortedChains)
              /\ SumCounts(Draws(calls)) = TotalQuads(SortedChains)

-----------------------------------------------------------------------------
(* ChooseLights called for any object on any light lists *)

InitLights ==
    /\ pc = "lights"
    /\ calls = <<>>
    /\ spriteVertexCount = 4
    /\ spriteBuffer = FreshBuffer(4)
    /\ mapped = FALSE
    /\ vertices = 0
    /\ spriteChainVector = <<>>
    /\ spriteChain = 0
    /\ spriteChainOffset = 0
    /\ spriteCount = 0
    /\ OrderedIdle
    /\ ShaderIdle
    /\ directionalLights \in SeqsUpTo(DirectionalLightChoices, MaxLightsPerKind)
    /\ pointLights \in SeqsUpTo(PointLightChoices, MaxLightsPerKind)
    /\ spotLights \in SeqsUpTo(SpotLightChoices, MaxLightsPerKind)
    /\ m_lights = <<>>
    /\ chooseArgs = NoChoice
    /\ OpaqueIdle
    /\ FrameIdle

\* ChooseLights(object, includeDirectionalLights)
LightsChoose ==
    /\ pc = "lights"
    /\ \E object \in ObjectSpheres, includeDirectionalLights \in BOOLEAN :
          /\ m_lights' \in ChooseLights(m_lights, object, includeDirectionalLights,
                                       directionalLights, pointLights, spotLights)
          /\ chooseArgs' = [called |-> TRUE, object |-> object,
                            include |-> includeDirectionalLights]
    /\ UNCHANGED <<commonVars, bufferVars, basicVars, spriteChainOffset, orderedVars,
                   shaderVars, queueLights, opaqueVars, frameVars>>

NextLights == LightsChoose

SpecLights == InitLights /\ [][NextLights]_vars

\* The (kind, index) pairs the selection must hold for the last call.
ExpectedLights ==
    {<<"Directional", i>> : i \in {j \in 0..(Len(directionalLights) - 1) :
        /\ chooseArgs.include
        /\ IsDirectionalLightSuitable(chooseArgs.object, directionalLights[j + 1])}}
    \cup {<<"Point", i>> : i \in {j \in 0..(Len(pointLights) - 1) :
        IsPointLightSuitable(chooseArgs.object, pointLights[j + 1])}}
    \cup {<<"Spot", i>> : i \in {j \in 0..(Len(spotLights) - 1) :
        IsSpotLightSuitable(chooseArgs.object, spotLights[j + 1])}}

SelectedLights == {<<m_lights[i].type, m_lights[i].index>> : i \in 1..Len(m_lights)}

\* C10: after ChooseLights(sphere, includeDirectional) the list holds exactly
\* one entry for every suitable point and spot light, one for every suitable
\* directional light iff includeDirectional, and nothing else: no unsuitable
\* light, no duplicate, no entry of a previous call.
C10_Membership ==
    chooseArgs.called =>
        /\ SelectedLights = ExpectedLights
        /\ Len(m_lights) = Cardinality(ExpectedLights)
        /\ ~chooseArgs.include =>
              \A i \in 1..Len(m_lights) : m_lights[i].type # "Directional"

\* C10 witness: a call without the directional lights that follows their
\* selection, on a queue that has some, has kept a point or spot light and
\* dropped an unsuitable one.
C10_Witness ==
    /\ chooseArgs.called
    /\ ~chooseArgs.include
    /\ Len(directionalLights) > 0
    /\ Len(m_lights) > 0
    /\ Len(m_lights) < Len(pointLights) + Len(spotLights)

-----------------------------------------------------------------------------
(* DrawOpaqueModels *)

\* pipelines in the layer's opaque batches
MaxPipelines == 2

OpaqueDirectionalLight(i) == [score |-> 3 * (i - 1)]
OpaquePointLight(i) ==
    [position |-> 4 * i - 2, radius |-> IF i % 2 = 0 THEN 5 ELSE 2]
OpaqueSpotLight(i) == [position |-> 3 * i, radius |-> 3]

FewInstances == <<0, 8>>
\* Enough instances for instancing, all but the first out of reach of the
\* point and spot lights.
ManyInstances == [i \in 1..(InstancingMinInstancesCount + 1) |-> 8 * i]

\* Capacities of the instance buffer: one that splits ManyInstances, one that not.
InstanceBufferCounts ==
    {InstancingMinInstancesCount \div 2 + 1, InstancingMinInstancesCount + 1}

\* A material of each pipeline.
PipelineMaterial(pipeline) ==
    CASE pipeline = "pipe1" -> "matA"
      [] pipeline = "pipe2" -> "matC"
      [] pipeline = "pipe3" -> "matD"

Pipelines == {GetPipeline(material) : material \in Materials}

\* One pipeline with one enabled material and one mesh.
OpaqueBatch(pipeline, instances) ==
    PipelineEntry(pipeline,
        <<MaterialEntry(PipelineMaterial(pipeline), TRUE,
                        <<MeshEntry("mesh1", instances)>>)>>)

\* Layers of 1..MaxPipelines batches of distinct pipelines.
BatchLayers ==
    UNION {{[i \in 1..len |-> OpaqueBatch(order[i], sizes[i])] :
               order \in {f \in [1..len -> Pipelines] :
                             \A i, j \in 1..len : i # j => f[i] # f[j]},
               sizes \in [1..len -> {FewInstances, ManyInstances}]} :
           len \in 1..MaxPipelines}

\* A layer with a disabled material, a mesh without instances and a pipeline
\* that has no instance at all (its material was not queued this frame).
SparseLayer ==
    <<PipelineEntry("pipe1",
        <<MaterialEntry("matA", FALSE, <<MeshEntry("mesh1", FewInstances)>>),
          MaterialEntry("matB", TRUE, <<MeshEntry("mesh1", <<>>),
                                        MeshEntry("mesh2", <<8>>)>>)>>),
      PipelineEntry("pipe3",
        <<MaterialEntry("matD", FALSE, <<MeshEntry("mesh1", <<>>)>>)>>)>>

\* Two enabled materials under one pipeline, one of them with two meshes.
TwoMaterialLayer ==
    <<PipelineEntry("pipe1",
        <<MaterialEntry("matA", TRUE, <<MeshEntry("mesh1", FewInstances)>>),
          MaterialEntry("matB", TRUE, <<MeshEntry("mesh1", <<8>>),
                                        MeshEntry("mesh2", <<0>>)>>)>>)>>

InitOpaque ==
    /\ pc = "q_pipeline"
    /\ calls = <<>>
    /\ spriteVertexCount = 4
    /\ spriteBuffer = FreshBuffer(4)
    /\ mapped = FALSE
    /\ vertices = 0
    /\ spriteChainVector = <<>>
    /\ spriteChain = 0
    /\ spriteChainOffset = 0
    /\ spriteCount = 0
    /\ OrderedIdle
    /\ uniformLocation = OpaqueUniformLocations
    /\ m_shaderUniforms = <<>>
    /\ directionalLights \in
          {[i \in 1..n |-> OpaqueDirectionalLight(i)] : n \in 0..MaxDirLights}
    /\ pointLights \in {[i \in 1..n |-> OpaquePointLight(i)] : n \in 0..MaxPointLights}
    /\ spotLights \in {[i \in 1..n |-> OpaqueSpotLight(i)] : n \in 0..MaxSpotLights}
    /\ m_lights = <<>>
    /\ chooseArgs = NoChoice
    /\ opaqueModels \in BatchLayers \cup {SparseLayer, TwoMaterialLayer}
    /\ m_instancingEnabled \in
          IF Len(opaqueModels) = 1 THEN BOOLEAN ELSE {TRUE}
    /\ instanceBufferCount \in InstanceBufferCounts
    /\ rendererStates = DefaultStates
    /\ pipelineIt = 1
    /\ materialIt = 1
    /\ meshIt = 1
    /\ matrixIt = 1
    /\ instancing = FALSE
    /\ shaderUniforms = NoUniforms
    /\ lightCount = 0
    /\ lightIndex = 0
    /\ oldDepthFunc = DefaultStates.depthFunc
    /\ passCount = 0
    /\ pass = 0
    /\ statesBefore = DefaultStates
    /\ FrameIdle

pipelineEntry == opaqueModels[pipelineIt]
matEntry == pipelineEntry.materialMap[materialIt]
meshEntry == matEntry.meshMap[meshIt]
instances == meshEntry.instances

\* The object being drawn: a mesh entry, and one of its instances (0: all).
ThisMesh == <<pipelineIt, materialIt, meshIt>>
ThisObject == <<pipelineIt, materialIt, meshIt, matrixIt>>

\* History marker: the object is complete and the states are as it leaves them.
EndObject(object, before, states) ==
    [op |-> "EndObject", object |-> object, before |-> before, states |-> states]

nonPassVars == <<bufferVars, basicVars, spriteChainOffset, orderedLocals,
                 uniformLocation, queueLights, opaqueInputs, frameVars>>

\* for (auto& pipelinePair : layer.opaqueModels), maxInstanceCount > 0
OpaquePipeline ==
    /\ pc = "q_pipeline"
    /\ pipelineIt <= Len(opaqueModels)
    /\ pipelineEntry.maxInstanceCount > 0
    /\ LET pipeline == pipelineEntry.pipeline
           withInstancing ==
               /\ m_instancingEnabled
               /\ pipelineEntry.maxInstanceCount > InstancingMinInstancesCount
           shader == GetInstanceShader(pipeline, withInstancing)
           cache == GetShaderUniforms(m_shaderUniforms, shader, uniformLocation)
       IN /\ instancing' = withInstancing
          /\ rendererStates' = PipelineStates(pipeline)
          /\ IF ShaderChanged(shader, lastShader)
             THEN /\ m_shaderUniforms' = cache
                  /\ shaderUniforms' = cache[shader]
                  /\ lastShader' = shader
             ELSE UNCHANGED <<m_shaderUniforms, shaderUniforms, lastShader>>
          /\ calls' = calls
                \o <<[op |-> "ApplyPipeline", pipeline |-> pipeline,
                      instancing |-> withInstancing]>>
                \o (IF ShaderChanged(shader, lastShader)
                    THEN <<[op |-> "SendSceneUniforms", shader |-> shader]>>
                    ELSE <<>>)
    /\ materialIt' = 1
    /\ pc' = "q_material"
    /\ UNCHANGED <<nonPassVars, m_lights, chooseArgs, pipelineIt, meshIt, matrixIt,
                   passVars>>

\* a pipeline entry that holds no instance is passed over
OpaquePipelineSkip ==
    /\ pc = "q_pipeline"
    /\ pipelineIt <= Len(opaqueModels)
    /\ pipelineEntry.maxInstanceCount <= 0
    /\ pipelineIt' = pipelineIt + 1
    /\ UNCHANGED <<commonVars, nonPassVars, lastShader, shaderVars, m_lights,
                   chooseArgs, rendererStates, materialIt, meshIt, matrixIt,
                   instancing, shaderUniforms, passVars>>

\* the loop over the pipelines ends and DrawOpaqueModels returns
OpaqueReturn ==
    /\ pc = "q_pipeline"
    /\ pipelineIt > Len(opaqueModels)
    /\ pc' = "done"
    /\ UNCHANGED <<calls, nonPassVars, lastShader, shaderVars, m_lights,
                   chooseArgs, rendererStates, opaqueIts, instancing, shaderUniforms,
                   passVars>>

\* for (auto& materialPair : pipelineEntry.materialMap), matEntry.enabled
OpaqueMaterial ==
    /\ pc = "q_material"
    /\ materialIt <= Len(pipelineEntry.materialMap)
    /\ BatchEnabled(matEntry)
    /\ calls' = Append(calls, [op |-> "ApplyMaterial", material |-> matEntry.material])
    /\ meshIt' = 1
    /\ pc' = "q_mesh"
    /\ UNCHANGED <<nonPassVars, lastShader, shaderVars, m_lights, chooseArgs,
                   rendererStates, pipelineIt, materialIt, matrixIt, instancing,
                   shaderUniforms, passVars>>

\* a material entry that is not enabled is passed over
OpaqueMaterialSkip ==
    /\ pc = "q_material"
    /\ materialIt <= Len(pipelineEntry.materialMap)
    /\ ~BatchEnabled(matEntry)
    /\ materialIt' = materialIt + 1
    /\ UNCHANGED <<commonVars, nonPassVars, lastShader, shaderVars, m_lights,
                   chooseArgs, rendererStates, pipelineIt, meshIt, matrixIt,
                   instancing, shaderUniforms, passVars>>

\* the loop over the materials of the pipeline ends
OpaqueMaterialsEnd ==
    /\ pc = "q_material"
    /\ materialIt > Len(pipelineEntry.materialMap)
    /\ pipelineIt' = pipelineIt + 1
    /\ pc' = "q_pipeline"
    /\ UNCHANGED <<calls, nonPassVars, lastShader, shaderVars, m_lights,
                   chooseArgs, rendererStates, materialIt, meshIt, matrixIt,
                   instancing, shaderUniforms, passVars>>

SetBuffersCall == [op |-> "SetBuffers", mesh |-> meshEntry.mesh]

\* if (instancing): the locals of the light passes of all instances together
OpaqueInstancedBegin ==
    /\ pc = "q_mesh"
    /\ meshIt <= Len(matEntry.meshMap)
    /\ instances # <<>>
    /\ instancing
    /\ calls' = Append(calls, SetBuffersCall)
    /\ matrixIt' = 0
    /\ lightCount' = Len(directionalLights)
    /\ lightIndex' = 0
    /\ oldDepthFunc' = rendererStates.depthFunc
    /\ passCount' = PassCount(Len(directionalLights))
    /\ pass' = 0
    /\ statesBefore' = rendererStates
    /\ pc' = "q_inst_pass"
    /\ UNCHANGED <<nonPassVars, lastShader, shaderVars, m_lights, chooseArgs,
                   rendererStates, pipelineIt, materialIt, meshIt, instancing,
                   shaderUniforms>>

\* no instancing, a shader with light uniforms: for (matrix : instances)
OpaqueLitBegin ==
    /\ pc = "q_mesh"
    /\ meshIt <= Len(matEntry.meshMap)
    /\ instances # <<>>
    /\ ~instancing
    /\ shaderUniforms.hasLightUniforms
    /\ calls' = Append(calls, SetBuffersCall)
    /\ matrixIt' = 1
    /\ pc' = "q_object"
    /\ UNCHANGED <<nonPassVars, lastShader, shaderVars, m_lights, chooseArgs,
                   rendererStates, pipelineIt, materialIt, meshIt, instancing,
                   shaderUniforms, passVars>>

\* no instancing, no light uniforms: one draw call per instance
OpaqueUnlitDraw ==
    /\ pc = "q_mesh"
    /\ meshIt <= Len(matEntry.meshMap)
    /\ instances # <<>>
    /\ ~instancing
    /\ ~shaderUniforms.hasLightUniforms
    /\ calls' = Append(calls, SetBuffersCall)
                \o DrawEachInstance(ThisMesh, instances, rendererStates)
    /\ meshIt' = meshIt + 1
    /\ UNCHANGED <<pc, nonPassVars, lastShader, shaderVars, m_lights, chooseArgs,
                   rendererStates, pipelineIt, materialIt, matrixIt, instancing,
                   shaderUniforms, passVars>>

\* if (!instances.empty()) fails: nothing is done for the mesh
OpaqueMeshSkip ==
    /\ pc = "q_mesh"
    /\ meshIt <= Len(matEntry.meshMap)
    /\ instances = <<>>
    /\ meshIt' = meshIt + 1
    /\ UNCHANGED <<commonVars, nonPassVars, lastShader, shaderVars, m_lights,
                   chooseArgs, rendererStates, pipelineIt, materialIt, matrixIt,
                   instancing, shaderUniforms, passVars>>

\* the loop over the meshes of the material ends
OpaqueMeshesEnd ==
    /\ pc = "q_mesh"
    /\ meshIt > Len(matEntry.meshMap)
    /\ materialIt' = materialIt + 1
    /\ pc' = "q_material"
    /\ UNCHANGED <<calls, nonPassVars, lastShader, shaderVars, m_lights,
                   chooseArgs, rendererStates, pipelineIt, meshIt, matrixIt,
                   instancing, shaderUniforms, passVars>>

\* one light pass of the instancing path
OpaqueInstancedPass ==
    /\ pc = "q_inst_pass"
    /\ pass < passCount
    /\ LET lit == shaderUniforms.hasLightUniforms
           renderedLightCount == Min(lightCount, MaxLightPerPass)
           states == IF lit THEN PassStates(rendererStates, pass) ELSE rendererStates
       IN /\ lightCount' = IF lit THEN lightCount - renderedLightCount ELSE lightCount
          /\ lightIndex' = IF lit THEN lightIndex + MaxLightPerPass ELSE lightIndex
          /\ rendererStates' = states
          /\ calls' = calls
                \o (IF lit
                    THEN SendPassLights(lastShader, shaderUniforms, 0, lightIndex,
                                        m_lights, m_renderQueue)
                    ELSE <<>>)
                \o DrawInstanceChunks(ThisObject, pass, states, instances, 0,
                                      instanceBufferCount)
    /\ pass' = pass + 1
    /\ UNCHANGED <<pc, nonPassVars, lastShader, shaderVars, m_lights, chooseArgs,
                   opaqueIts, instancing, shaderUniforms, oldDepthFunc, passCount,
                   statesBefore>>

\* after the passes of the instancing path
OpaqueInstancedRestore ==
    /\ pc = "q_inst_pass"
    /\ pass >= passCount
    /\ rendererStates' = RestoredStates(rendererStates, oldDepthFunc)
    /\ calls' = Append(calls, EndObject(ThisObject, statesBefore, rendererStates'))
    /\ meshIt' = meshIt + 1
    /\ pc' = "q_mesh"
    /\ UNCHANGED <<nonPassVars, lastShader, shaderVars, m_lights, chooseArgs,
                   pipelineIt, materialIt, matrixIt, instancing, shaderUniforms,
                   passVars>>

\* for (matrix : instances): ChooseLights for the instance, the locals of its passes
OpaqueObject ==
    /\ pc = "q_object"
    /\ matrixIt <= Len(instances)
    /\ LET matrix == instances[matrixIt]
           object == Sphere(matrix + meshEntry.squaredBoundingSphere.position,
                            meshEntry.squaredBoundingSphere.radius)
       IN /\ m_lights' \in ChooseLights(m_lights, object, TRUE, directionalLights,
                                       pointLights, spotLights)
          /\ chooseArgs' = [called |-> TRUE, object |-> object, include |-> TRUE]
          /\ calls' = Append(calls, [op |-> "SetMatrix", matrix |-> matrix])
    /\ lightCount' = Len(m_lights')
    /\ lightIndex' = 0
    /\ oldDepthFunc' = rendererStates.depthFunc
    /\ passCount' = PassCount(Len(m_lights'))
    /\ pass' = 0
    /\ statesBefore' = rendererStates
    /\ pc' = "q_pass"
    /\ UNCHANGED <<nonPassVars, lastShader, shaderVars, rendererStates, opaqueIts,
                   instancing, shaderUniforms>>

\* the loop over the instances of the mesh ends
OpaqueObjectsEnd ==
    /\ pc = "q_object"
    /\ matrixIt > Len(instances)
    /\ meshIt' = meshIt + 1
    /\ pc' = "q_mesh"
    /\ UNCHANGED <<calls, nonPassVars, lastShader, shaderVars, m_lights,
                   chooseArgs, rendererStates, pipelineIt, materialIt, matrixIt,
                   instancing, shaderUniforms, passVars>>

\* one light pass of an instance drawn without instancing
OpaquePass ==
    /\ pc = "q_pass"
    /\ pass < passCount
    /\ lightCount' = lightCount - Min(lightCount, MaxLightPerPass)
    /\ rendererStates' = PassStates(rendererStates, pass)
    /\ lightIndex' = lightIndex + MaxLightPerPass
    /\ calls' = calls
          \o SendPassLights(lastShader, shaderUniforms, 0, lightIndex, m_lights,
                            m_renderQueue)
          \o <<DrawMeshCall(ThisObject, pass, rendererStates', instances[matrixIt])>>
    /\ pass' = pass + 1
    /\ UNCHANGED <<pc, nonPassVars, lastShader, shaderVars, m_lights, chooseArgs,
                   opaqueIts, instancing, shaderUniforms, oldDepthFunc, passCount,
                   statesBefore>>

\* after the passes of the instance
OpaqueRestore ==
    /\ pc = "q_pass"
    /\ pass >= passCount
    /\ rendererStates' = RestoredStates(rendererStates, oldDepthFunc)
    /\ calls' = Append(calls, EndObject(ThisObject, statesBefore, rendererStates'))
    /\ matrixIt' = matrixIt + 1
    /\ pc' = "q_object"
    /\ UNCHANGED <<nonPassVars, lastShader, shaderVars, m_lights, chooseArgs,
                   pipelineIt, materialIt, meshIt, instancing, shaderUniforms,
                   passVars>>

NextOpaque ==
    \/ OpaquePipeline
    \/ OpaquePipelineSkip
    \/ OpaqueReturn
    \/ OpaqueMaterial
    \/ OpaqueMaterialSkip
    \/ OpaqueMaterialsEnd
    \/ OpaqueInstancedBegin
    \/ OpaqueLitBegin
    \/ OpaqueUnlitDraw
    \/ OpaqueMeshSkip
    \/ OpaqueMeshesEnd
    \/ OpaqueInstancedPass
    \/ OpaqueInstancedRestore
    \/ OpaqueObject
    \/ OpaqueObjectsEnd
    \/ OpaquePass
    \/ OpaqueRestore

SpecOpaque == InitOpaque /\ [][NextOpaque]_vars

-----------------------------------------------------------------------------
(* Properties of the light passes of DrawOpaqueModels *)

IsMeshDraw(e) == e.op \in {"DrawMesh", "DrawInstanced"}

\* The draws issued for an object, in order.
ObjectDraws(c, object) ==
    SelectSeq(c, LAMBDA e : IsMeshDraw(e) /\ e.object = object)

ObjectPasses(c, object) ==
    {ObjectDraws(c, object)[i].pass : i \in 1..Len(ObjectDraws(c, object))}

\* An object's pass loop is running, or has just ended.
InPassLoop == pc \in {"q_pass", "q_inst_pass"}
PassesComplete == InPassLoop /\ pass >= passCount

\* k: the lights selected for the object.
SelectedLightCount == IF instancing THEN Len(directionalLights) ELSE Len(m_lights)

CeilDiv(k, m) == (k + m - 1) \div m

ExpectedPasses(k, m) == IF k = 0 THEN 1 ELSE CeilDiv(k, m)

\* C6: an opaque object with k selected lights (the ChooseLights result
\* without instancing, the directional lights with instancing) and m lights
\* per pass gets exactly ceil(k/m) light passes, and exactly 1 when k = 0;
\* without instancing each pass is one draw.
C6_PassCount ==
    PassesComplete =>
        LET n == ExpectedPasses(SelectedLightCount, MaxLightPerPass)
        IN /\ ObjectPasses(calls, ThisObject) = 0..(n - 1)
           /\ ~instancing => Len(ObjectDraws(calls, ThisObject)) = n

\* C6 witness: an instance drawn without instancing whose selected lights do
\* not fill the last of several passes.
C6_Witness ==
    /\ PassesComplete
    /\ ~instancing
    /\ SelectedLightCount > MaxLightPerPass
    /\ SelectedLightCount % MaxLightPerPass # 0

\* The draws of the current object have the states of the passes: the first
\* the states in force before the object, the others additive blending and the
\* depth comparison "equal".
CurrentPassStates ==
    \A i \in 1..Len(ObjectDraws(calls, ThisObject)) :
        LET e == ObjectDraws(calls, ThisObject)[i]
        IN /\ e.pass = 0 => e.states = statesBefore
           /\ e.pass >= 1 => e.states = AdditiveStates

\* C7: when an opaque object gets more than one light pass, its first pass is
\* drawn with the blend and depth states in force before the object and every
\* later pass with blending enabled, blend function one+one and depth
\* comparison "equal".
C7_PassStates == (InPassLoop /\ passCount > 1) => CurrentPassStates

\* The same for the shaders that have light uniforms only.
LitPassStates ==
    (InPassLoop /\ passCount > 1 /\ shaderUniforms.hasLightUniforms)
        => CurrentPassStates

\* A lit object has had its third pass.
LitThirdPass ==
    /\ InPassLoop
    /\ shaderUniforms.hasLightUniforms
    /\ pass >= 3

\* C8: after the last light pass of an opaque object the blend flag, the blend
\* function and the depth comparison are the ones in force before its first
\* pass, whatever they were and however many passes were issued.
C8_StatesRestored ==
    \A i \in 1..Len(calls) :
        calls[i].op = "EndObject" => calls[i].states = calls[i].before

\* The depth comparison alone is restored.
DepthFuncRestored ==
    \A i \in 1..Len(calls) :
        calls[i].op = "EndObject" =>
            calls[i].states.depthFunc = calls[i].before.depthFunc

\* The lights sent since the buffers of the current mesh were set.
SentLights ==
    LET last == MaxOf({i \in 1..Len(calls) : calls[i].op = "SetBuffers"})
    IN {calls[i] : i \in {j \in (last + 1)..Len(calls) : calls[j].op = "SendLight"}}

\* C9: a mesh drawn through the instancing path with a shader that has light
\* uniforms is sent, over its passes, the directional lights of the queue and
\* only those: no point light, no spot light.
C9_InstancedLights ==
    (pc = "q_inst_pass" /\ shaderUniforms.hasLightUniforms /\ pass >= passCount) =>
        /\ \A e \in SentLights : e.type \in {"Directional", "Disabled"}
        /\ {e.index : e \in {l \in SentLights : l.type = "Directional"}}
              = 0..(Len(directionalLights) - 1)

\* No point or spot light is sent in the instancing path.
InstancedNoPointOrSpot ==
    (pc = "q_inst_pass" /\ shaderUniforms.hasLightUniforms) =>
        \A e \in SentLights : e.type \in {"Directional", "Disabled"}

\* Every directional light is sent in the instancing path.
InstancedAllDirectional ==
    (pc = "q_inst_pass" /\ shaderUniforms.hasLightUniforms /\ pass >= passCount) =>
        {e.index : e \in {l \in SentLights : l.type = "Directional"}}
            = 0..(Len(directionalLights) - 1)

-----------------------------------------------------------------------------
(* Order of the selection *)

\* C11: for every set of lights and every sphere the list ChooseLights
\* produces is sorted non-decreasingly by score across all kinds together:
\* for consecutive entries a, b, a.score <= b.score, so entry 0 has a least
\* score.
C11_SortedByScore ==
    chooseArgs.called =>
        /\ \A i \in 1..(Len(m_lights) - 1) : m_lights[i].score <= m_lights[i + 1].score
        /\ \A i \in 1..Len(m_lights) : m_lights[1].score <= m_lights[i].score

\* C11 witness: a selection of three kinds in which a point light precedes a
\* directional light pushed before it, and two entries tie.
C11_Witness ==
    /\ chooseArgs.called
    /\ \E i, j \in 1..Len(m_lights) :
          /\ i < j
          /\ m_lights[i].type = "Point"
          /\ m_lights[j].type = "Directional"
    /\ \E i \in 1..Len(m_lights) : m_lights[i].type = "Spot"
    /\ \E i \in 1..(Len(m_lights) - 1) : m_lights[i].score = m_lights[i + 1].score

-----------------------------------------------------------------------------
(* The cache of shader uniforms: GetShaderUniforms and OnShaderInvalidated *)

\* calls of GetShaderUniforms and notifications in one run
MaxCacheCalls == 4

\* Locations a shader gives to "Lights[0].type" and "Lights[1].type": an array
\* at 4, no array, an array at location 0, a single light.
LocationLayouts ==
    {LitLayout, UnlitLayout, [type0 |-> 0, type1 |-> 8], [type0 |-> 4, type1 |-> -1]}

InitCache ==
    /\ pc = "cache"
    /\ calls = <<>>
    /\ SpritesIdle
    /\ OrderedIdle
    /\ uniformLocation \in [Shaders -> LocationLayouts]
    /\ m_shaderUniforms = <<>>
    /\ LightsIdle
    /\ OpaqueIdle
    /\ FrameIdle

\* GetShaderUniforms(shader), with what it did and what it returned
CacheGet ==
    /\ pc = "cache"
    /\ Len(calls) < MaxCacheCalls
    /\ \E shader \in Shaders :
          LET miss == CacheMiss(m_shaderUniforms, shader)
              cache == GetShaderUniforms(m_shaderUniforms, shader, uniformLocation)
          IN /\ m_shaderUniforms' = cache
             /\ calls' = Append(calls,
                   [op |-> "GetShaderUniforms", shader |-> shader,
                    resolved |-> IF miss THEN ResolvedLocations(uniformLocation[shader])
                                 ELSE 0,
                    connected |-> IF miss THEN 2 ELSE 0,
                    locations |-> uniformLocation[shader],
                    uniforms |-> cache[shader]])
    /\ UNCHANGED <<pc, bufferVars, basicVars, spriteChainOffset, orderedVars,
                   uniformLocation, lightVars, opaqueVars, frameVars>>

\* The shader is released, or its uniforms change, and notifies:
\* OnShaderInvalidated(shader)
CacheInvalidate ==
    /\ pc = "cache"
    /\ Len(calls) < MaxCacheCalls
    /\ \E shader \in Shaders, layout \in LocationLayouts :
          /\ uniformLocation' = [uniformLocation EXCEPT ![shader] = layout]
          /\ m_shaderUniforms' = EraseUniforms(m_shaderUniforms, shader)
          /\ calls' = Append(calls, [op |-> "OnShaderInvalidated", shader |-> shader])
    /\ UNCHANGED <<pc, bufferVars, basicVars, spriteChainOffset, orderedVars,
                   lightVars, opaqueVars, frameVars>>

NextCache ==
    \/ CacheGet
    \/ CacheInvalidate

SpecCache == InitCache /\ [][NextCache]_vars

IsGet(e, shader) == e.op = "GetShaderUniforms" /\ e.shader = shader
IsInvalidation(e, shader) == e.op = "OnShaderInvalidated" /\ e.shader = shader

\* No notification for the shader lies between calls i and j.
NoInvalidationBetween(shader, i, j) ==
    \A k \in (i + 1)..(j - 1) : ~IsInvalidation(calls[k], shader)

\* C12: two calls of GetShaderUniforms for one shader with no invalidation in
\* between return the same binding, and the second resolves no location and
\* connects no slot; after OnShaderInvalidated(shader) the next call resolves
\* the locations again and caches the binding it resolved.
C12_CacheIdempotence ==
    \A shader \in Shaders :
        /\ \A i, j \in 1..Len(calls) :
              (/\ i < j
               /\ IsGet(calls[i], shader)
               /\ IsGet(calls[j], shader)
               /\ NoInvalidationBetween(shader, i, j))
              => /\ calls[j].uniforms = calls[i].uniforms
                 /\ calls[j].resolved = 0
                 /\ calls[j].connected = 0
        /\ \A j \in 2..Len(calls) :
              (IsGet(calls[j], shader) /\ IsInvalidation(calls[j - 1], shader))
              => /\ calls[j].resolved > 0
                 /\ calls[j].connected > 0
                 /\ calls[j].uniforms = ResolveUniforms(calls[j].locations)
                 /\ j = Len(calls) =>
                       /\ shader \in DOMAIN m_shaderUniforms
                       /\ m_shaderUniforms[shader] = calls[j].uniforms

\* C12 witness: two calls in a row for a shader, a notification that changed
\* its locations, and a call that returned another binding than the first two.
C12_Witness ==
    /\ Len(calls) = 4
    /\ calls[1].op = "GetShaderUniforms"
    /\ IsGet(calls[2], calls[1].shader)
    /\ IsInvalidation(calls[3], calls[1].shader)
    /\ IsGet(calls[4], calls[1].shader)
    /\ calls[4].uniforms # calls[1].uniforms

\* Two calls in a row for one shader.
CacheHitReached ==
    /\ Len(calls) >= 2
    /\ calls[1].op = "GetShaderUniforms"
    /\ IsGet(calls[2], calls[1].shader)

\* A location other than the invalid value -1.
ValidLocation(location) == location # -1

\* C13: GetShaderUniforms sets hasLightUniforms to true if and only if the
\* locations of "Lights[0].type" and "Lights[1].type" are both valid (any
\* location other than -1, location 0 included), and lightOffset is then the
\* difference of the two locations.
C13_LightArrayDetection ==
    \A i \in 1..Len(calls) :
        (calls[i].op = "GetShaderUniforms" /\ calls[i].resolved > 0) =>
            LET loc == calls[i].locations
                both == ValidLocation(loc.type0) /\ ValidLocation(loc.type1)
            IN /\ calls[i].uniforms.hasLightUniforms <=> both
               /\ both => calls[i].uniforms.lightOffset = loc.type1 - loc.type0

\* The detection is right for the shaders whose light array is not at
\* location 0.
LightArrayDetectionAboveZero ==
    \A i \in 1..Len(calls) :
        (/\ calls[i].op = "GetShaderUniforms"
         /\ calls[i].resolved > 0
         /\ calls[i].locations.type0 # 0) =>
            LET loc == calls[i].locations
                both == ValidLocation(loc.type0) /\ ValidLocation(loc.type1)
            IN /\ calls[i].uniforms.hasLightUniforms <=> both
               /\ both => calls[i].uniforms.lightOffset = loc.type1 - loc.type0

-----------------------------------------------------------------------------
(* Draw: the frame, layer by layer *)

\* layers of the render queue
MaxLayers == 2

\* What Draw looks at in a layer: which containers are empty, whether a chain
\* of the depth-sorted sprites has to be split, how many other drawables.
Layer(opaque, transparent, sprites, ordered, boards, drawables) ==
    [opaqueModels |-> opaque, depthSortedMeshes |-> transparent,
     opaqueSprites |-> sprites, depthSortedSprites |-> ordered,
     billboards |-> boards, otherDrawables |-> drawables]

LayerChoices ==
    {Layer(FALSE, FALSE, FALSE, "empty", FALSE, 0),
     Layer(TRUE, TRUE, TRUE, "fits", TRUE, 2),
     Layer(TRUE, FALSE, FALSE, "empty", FALSE, 0),
     Layer(FALSE, TRUE, FALSE, "fits", FALSE, 1),
     Layer(FALSE, FALSE, TRUE, "empty", TRUE, 0),
     Layer(TRUE, FALSE, TRUE, "splits", FALSE, 1),
     Layer(FALSE, FALSE, FALSE, "empty", FALSE, 2),
     Layer(FALSE, TRUE, FALSE, "empty", TRUE, 0)}

\* The statements of the layer loop with transparent meshes and opaque sprites
\* exchanged.
AfterStageSwapped(stage) ==
    CASE stage = "f_opaque" -> "f_sprites"
      [] stage = "f_sprites" -> "f_transparent"
      [] stage = "f_transparent" -> "f_ordered"
      [] stage = "f_ordered" -> "f_billboards"
      [] stage = "f_billboards" -> "f_drawables"

\* The statement that follows in the body of the layer loop.
AfterStage(stage) ==
    CASE stage = "f_opaque" -> "f_transparent"
      [] stage = "f_transparent" -> "f_sprites"
      [] stage = "f_sprites" -> "f_ordered"
      [] stage = "f_ordered" -> "f_billboards"
      [] stage = "f_billboards" -> "f_drawables"

\* A submitter called for a layer, with the draws it issues.
Submit(submitter, layer) == [op |-> "Submit", submitter |-> submitter, layer |-> layer]

InitDraw ==
    /\ pc = "f_sort"
    /\ calls = <<>>
    /\ SpritesIdle
    /\ OrderedIdle
    /\ ShaderIdle
    /\ LightsIdle
    /\ OpaqueIdle
    /\ m_maxLightPassPerObject = DefaultMaxLightPassPerObject
    /\ layers \in SeqsUpTo(LayerChoices, MaxLayers)
    /\ layerIt = 1
    /\ BillboardsIdle
    /\ opaqueSprites = <<>>
    /\ TransparentIdle
    /\ InitializeIdle

drawRest == <<bufferVars, basicVars, spriteChainOffset, orderedVars, shaderVars,
              lightVars, opaqueVars, m_maxLightPassPerObject, layers, billboardVars,
              otherVars>>

\* m_renderQueue.Sort(sceneData.viewer)
DrawSort ==
    /\ pc = "f_sort"
    /\ calls' = Append(calls, [op |-> "Sort"])
    /\ layerIt' = 1
    /\ pc' = IF layers = <<>> THEN "done" ELSE "f_opaque"
    /\ UNCHANGED drawRest

\* if (!layer.opaqueModels.empty()) DrawOpaqueModels(sceneData, layer)
DrawLayerOpaqueModels ==
    /\ pc = "f_opaque"
    /\ calls' = IF layers[layerIt].opaqueModels
                THEN Append(calls, Submit("DrawOpaqueModels", layerIt))
                ELSE calls
    /\ pc' = AfterStage("f_opaque")
    /\ UNCHANGED <<drawRest, layerIt>>

\* if (!layer.depthSortedMeshes.empty()) DrawTransparentModels(sceneData, layer)
DrawLayerTransparentModels ==
    /\ pc = "f_transparent"
    /\ calls' = IF layers[layerIt].depthSortedMeshes
                THEN Append(calls, Submit("DrawTransparentModels", layerIt))
                ELSE calls
    /\ pc' = AfterStage("f_transparent")
    /\ UNCHANGED <<drawRest, layerIt>>

\* if (!layer.opaqueSprites.empty()) DrawBasicSprites(sceneData, layer)
DrawLayerBasicSprites ==
    /\ pc = "f_sprites"
    /\ calls' = IF layers[layerIt].opaqueSprites
                THEN Append(calls, Submit("DrawBasicSprites", layerIt))
                ELSE calls
    /\ pc' = AfterStage("f_sprites")
    /\ UNCHANGED <<drawRest, layerIt>>

\* if (!layer.depthSortedSprites.empty()) DrawOrderedSprites(sceneData, layer):
\* the call does not return when a chain has to be split.
DrawLayerOrderedSprites ==
    /\ pc = "f_ordered"
    /\ calls' = IF layers[layerIt].depthSortedSprites # "empty"
                THEN Append(calls, Submit("DrawOrderedSprites", layerIt))
                ELSE calls
    /\ pc' = IF layers[layerIt].depthSortedSprites = "splits"
             THEN "f_ordered_loop"
             ELSE AfterStage("f_ordered")
    /\ UNCHANGED <<drawRest, layerIt>>

\* if (!layer.billboards.empty()) DrawBillboards(sceneData, layer)
DrawLayerBillboards ==
    /\ pc = "f_billboards"
    /\ calls' = IF layers[layerIt].billboards
                THEN Append(calls, Submit("DrawBillboards", layerIt))
                ELSE calls
    /\ pc' = AfterStage("f_billboards")
    /\ UNCHANGED <<drawRest, layerIt>>

\* for (const Drawable* drawable : layer.otherDrawables) drawable->Draw();
\* then the next layer, or return true
DrawLayerDrawables ==
    /\ pc = "f_drawables"
    /\ calls' = calls \o [d \in 1..layers[layerIt].otherDrawables |->
                             [op |-> "Submit", submitter |-> "Drawable",
                              layer |-> layerIt, drawable |-> d]]
    /\ layerIt' = layerIt + 1
    /\ pc' = IF layerIt + 1 > Len(layers) THEN "done" ELSE "f_opaque"
    /\ UNCHANGED drawRest

NextDraw ==
    \/ DrawSort
    \/ DrawLayerOpaqueModels
    \/ DrawLayerTransparentModels
    \/ DrawLayerBasicSprites
    \/ DrawLayerOrderedSprites
    \/ DrawLayerBillboards
    \/ DrawLayerDrawables

SpecDraw == InitDraw /\ [][NextDraw]_vars

\* The submitters of a layer in the order of the contract, the ones of empty
\* containers left out.
LayerSubmitters(layer) ==
    (IF layer.opaqueModels THEN <<"DrawOpaqueModels">> ELSE <<>>)
    \o (IF layer.depthSortedMeshes THEN <<"DrawTransparentModels">> ELSE <<>>)
    \o (IF layer.opaqueSprites THEN <<"DrawBasicSprites">> ELSE <<>>)
    \o (IF layer.depthSortedSprites # "empty" THEN <<"DrawOrderedSprites">> ELSE <<>>)
    \o (IF layer.billboards THEN <<"DrawBillboards">> ELSE <<>>)
    \o [d \in 1..layer.otherDrawables |-> "Drawable"]

\* The submissions of the layers from i on, as <<submitter, layer>>.
RECURSIVE ExpectedSubmissions(_, _)
ExpectedSubmissions(ls, i) ==
    IF i > Len(ls) THEN <<>>
    ELSE [k \in 1..Len(LayerSubmitters(ls[i])) |-> <<LayerSubmitters(ls[i])[k], i>>]
         \o ExpectedSubmissions(ls, i + 1)

Submissions(c) ==
    LET subs == SelectSeq(c, LAMBDA e : e.op = "Submit")
    IN [k \in 1..Len(subs) |-> <<subs[k].submitter, subs[k].layer>>]

\* C14: Draw sorts the render queue exactly once, before any draw; then the
\* layers are processed in the queue's order and, within a layer, the
\* submitters run in the order opaque meshes, transparent meshes, opaque
\* sprites, depth-sorted sprites, billboards, other drawables, each only if
\* its container is not empty; every draw of a layer precedes every draw of
\* the next.
C14_FrameOrder ==
    /\ pc # "f_sort" =>
          /\ calls[1].op = "Sort"
          /\ \A i \in 2..Len(calls) : calls[i].op = "Submit"
    /\ pc = "f_sort" => calls = <<>>
    /\ IsPrefix(Submissions(calls), ExpectedSubmissions(layers, 1))
    /\ pc = "done" => Submissions(calls) = ExpectedSubmissions(layers, 1)
    /\ \A i, j \in 2..Len(calls) : i < j => calls[i].layer <= calls[j].layer

\* C14 witness: a frame of two layers is done; the first layer ran all six
\* kinds of submission and the second skipped some.
C14_Witness ==
    /\ pc = "done"
    /\ Len(layers) = 2
    /\ Len(LayerSubmitters(layers[1])) = 7
    /\ Len(LayerSubmitters(layers[2])) \in 1..3

-----------------------------------------------------------------------------
(* Batching of DrawOpaqueModels *)

CountOp(c, op) == Len(SelectSeq(c, LAMBDA e : e.op = op))

\* No pipeline was applied with the instancing flag.
NoInstancing ==
    \A i \in 1..Len(calls) : calls[i].op = "ApplyPipeline" => ~calls[i].instancing

\* No light was selected for any object: every slot sent was disabled.
NoLightSelected ==
    \A i \in 1..Len(calls) : calls[i].op = "SendLight" => calls[i].type = "Disabled"

\* <<pipeline, material>> positions of the enabled material batches.
EnabledMaterialBatches ==
    UNION {{<<p, m>> : m \in {k \in DOMAIN opaqueModels[p].materialMap :
                                 opaqueModels[p].materialMap[k].enabled}} :
           p \in DOMAIN opaqueModels}

\* Every instance of the enabled material batches.
EnabledInstances ==
    UNION {UNION {{<<b[1], b[2], k, i>> :
                      i \in DOMAIN opaqueModels[b[1]].materialMap[b[2]].meshMap[k].instances} :
                  k \in DOMAIN opaqueModels[b[1]].materialMap[b[2]].meshMap} :
           b \in EnabledMaterialBatches}

\* Positions of the pipeline batches that hold an instance.
PipelinesWithInstances ==
    {p \in DOMAIN opaqueModels :
        \E m \in DOMAIN opaqueModels[p].materialMap :
            \E k \in DOMAIN opaqueModels[p].materialMap[m].meshMap :
                opaqueModels[p].materialMap[m].meshMap[k].instances # <<>>}

\* C15: without instancing and with zero lights selected, DrawOpaqueModels
\* applies the pipeline once per pipeline batch that has instances, applies
\* the material once per enabled material batch and issues as many draw calls
\* as there are instances in the enabled material batches.
C15_BatchCounts ==
    (pc = "done" /\ NoInstancing /\ NoLightSelected) =>
        /\ CountOp(calls, "ApplyPipeline") = Cardinality(PipelinesWithInstances)
        /\ CountOp(calls, "ApplyMaterial") = Cardinality(EnabledMaterialBatches)
        /\ CountOp(calls, "DrawMesh") = Cardinality(EnabledInstances)

\* C15 witness: two enabled materials under one pipeline, instancing disabled,
\* no light: one pipeline bind, two material binds, four draws.
C15_Witness ==
    /\ pc = "done"
    /\ ~m_instancingEnabled
    /\ NoLightSelected
    /\ Len(opaqueModels) = 1
    /\ Cardinality(EnabledMaterialBatches) = 2
    /\ CountOp(calls, "ApplyPipeline") = 1
    /\ CountOp(calls, "ApplyMaterial") = 2
    /\ CountOp(calls, "DrawMesh") = 4

-----------------------------------------------------------------------------
(* DrawBillboards *)

\* billboards queued for one material
MaxBillboards == 5
\* billboards the instance buffer, or the point buffer, holds
MaxBillboardCapacity == 3
\* pipeline batches of layer.billboards
MaxBillboardPipelines == 3

\* entry.billboards of a material holding n billboards
BillboardVector(material, n) == [i \in 1..n |-> <<material, i>>]

\* an entry of a materialMap of layer.billboards
BillboardEntry(material, n) ==
    [material |-> material, billboards |-> BillboardVector(material, n)]

\* an entry of layer.billboards
BillboardPipelineEntry(pipeline, enabled, materialMap) ==
    [pipeline |-> pipeline, enabled |-> enabled, materialMap |-> materialMap]

\* The material maps of a pipeline: each of its materials, with one of counts
\* billboards.
BillboardMaterialMaps(pipeline, counts) ==
    CASE pipeline = "pipe1" ->
            {<<BillboardEntry("matA", a), BillboardEntry("matB", b)>> :
                a \in counts, b \in counts}
      [] pipeline = "pipe2" -> {<<BillboardEntry("matC", c)>> : c \in counts}
      [] pipeline = "pipe3" -> {<<BillboardEntry("matD", d)>> : d \in counts}

BillboardBatches(pipeline, counts) ==
    {BillboardPipelineEntry(pipeline, enabled, materialMap) :
        enabled \in BOOLEAN, materialMap \in BillboardMaterialMaps(pipeline, counts)}

\* layer.billboards: one batch with any number of billboards, or up to maxLen
\* batches of distinct pipelines with none or two billboards per material.
BillboardLayers(maxLen) ==
    UNION {{<<b>> : b \in BillboardBatches(p, 0..MaxBillboards)} : p \in Pipelines}
    \cup UNION {{l \in [1..len -> UNION {BillboardBatches(p, {0, 2}) : p \in Pipelines}] :
                    \A i, j \in 1..len : i # j => l[i].pipeline # l[j].pipeline} :
                len \in 2..maxLen}

\* A chunk that takes every billboard left.
RenderedAll(count, maxBillboardPerDraw) == count

\* std::min(billboardCount, maxBillboardPerDraw)
RenderedBillboardCount(count, maxBillboardPerDraw) == Min(count, maxBillboardPerDraw)

\* DrawBillboards is entered with buffers of one of the given capacities and one
\* of the given layers.
InitBillboardsOn(capacities, billboardLayers) ==
    /\ pc = "bb_begin"
    /\ calls = <<>>
    /\ SpritesIdle
    /\ OrderedIdle
    /\ ShaderIdle
    /\ LightsIdle
    /\ opaqueModels = <<>>
    /\ m_instancingEnabled \in BOOLEAN
    /\ instanceBufferCount \in capacities
    /\ rendererStates = DefaultStates
    /\ pipelineIt = 1
    /\ materialIt = 1
    /\ meshIt = 1
    /\ matrixIt = 1
    /\ instancing = FALSE
    /\ shaderUniforms = NoUniforms
    /\ lightCount = 0
    /\ lightIndex = 0
    /\ oldDepthFunc = DefaultStates.depthFunc
    /\ passCount = 0
    /\ pass = 0
    /\ statesBefore = DefaultStates
    /\ m_maxLightPassPerObject = DefaultMaxLightPassPerObject
    /\ DrawIdle
    /\ billboards \in billboardLayers
    /\ queuedBillboards = billboards
    /\ rendererInstancing \in BOOLEAN
    /\ billboardPointVertexCount = 4 * instanceBufferCount + ((instanceBufferCount - 1) % 4)
    /\ billboardCount = 0
    /\ data = 0
    /\ opaqueSprites = <<>>
    /\ TransparentIdle
    /\ InitializeIdle

InitBillboards ==
    InitBillboardsOn(1..MaxBillboardCapacity, BillboardLayers(MaxBillboardPipelines))

\* what no step of DrawBillboards changes
billboardRest == <<bufferVars, basicVars, spriteChainOffset, orderedLocals,
                   uniformLocation, lightVars, opaqueInputs, meshIt, matrixIt, passVars,
                   m_maxLightPassPerObject, drawVars, billboardInputs, otherVars>>

billboardPipeline == billboards[pipelineIt]
billboardEntry == billboardPipeline.materialMap[materialIt]

\* if (m_instancingEnabled && Renderer::HasCapability(RendererCap_Instancing)) ... else ...
BillboardsBegin ==
    /\ pc = "bb_begin"
    /\ instancing' = (m_instancingEnabled /\ rendererInstancing)
    /\ calls' = calls \o
          (IF instancing'
           THEN <<[op |-> "SetVertexBuffer", buffer |-> "s_quadVertexBuffer"]>>
           ELSE <<[op |-> "SetIndexBuffer", buffer |-> "s_quadIndexBuffer"],
                  [op |-> "SetVertexBuffer", buffer |-> "m_billboardPointBuffer"]>>)
    /\ pc' = "bb_pipeline"
    /\ UNCHANGED <<billboardRest, lastShader, m_shaderUniforms, shaderUniforms,
                   rendererStates, pipelineIt, materialIt, billboardCount, data>>

\* for (auto& pipelinePair : layer.billboards), pipelineEntry.enabled
BillboardPipeline ==
    /\ pc = "bb_pipeline"
    /\ pipelineIt <= Len(billboards)
    /\ BatchEnabled(billboardPipeline)
    /\ LET pipeline == billboardPipeline.pipeline
           shader == GetInstanceShader(pipeline, instancing)
           cache == GetShaderUniforms(m_shaderUniforms, shader, OpaqueUniformLocations)
       IN /\ rendererStates' = PipelineStates(pipeline)
          /\ IF ShaderChanged(shader, lastShader)
             THEN /\ m_shaderUniforms' = cache
                  /\ shaderUniforms' = cache[shader]
                  /\ lastShader' = shader
             ELSE UNCHANGED <<m_shaderUniforms, shaderUniforms, lastShader>>
          /\ calls' = calls
                \o <<[op |-> "ApplyPipeline", pipeline |-> pipeline,
                      instancing |-> instancing]>>
                \o (IF ShaderChanged(shader, lastShader)
                    THEN <<[op |-> "SendSceneUniforms", shader |-> shader]>>
                    ELSE <<>>)
    /\ materialIt' = 1
    /\ pc' = "bb_material"
    /\ UNCHANGED <<billboardRest, instancing, pipelineIt, billboardCount, data>>

\* a pipeline entry that is not enabled is passed over
BillboardPipelineSkip ==
    /\ pc = "bb_pipeline"
    /\ pipelineIt <= Len(billboards)
    /\ ~BatchEnabled(billboardPipeline)
    /\ pipelineIt' = pipelineIt + 1
    /\ UNCHANGED <<commonVars, billboardRest, lastShader, m_shaderUniforms,
                   shaderUniforms, rendererStates, instancing, materialIt,
                   billboardCount, data>>

\* the loop over the pipelines ends and DrawBillboards returns
BillboardReturn ==
    /\ pc = "bb_pipeline"
    /\ pipelineIt > Len(billboards)
    /\ pc' = "done"
    /\ UNCHANGED <<calls, billboardRest, lastShader, m_shaderUniforms, shaderUniforms,
                   rendererStates, instancing, pipelineIt, materialIt, billboardCount,
                   data>>

\* instancing: for (auto& matIt : materialMap), if (billboardCount > 0) material->Apply
BillboardMaterial ==
    /\ pc = "bb_material"
    /\ instancing
    /\ materialIt <= Len(billboardPipeline.materialMap)
    /\ Len(billboardEntry.billboards) > 0
    /\ calls' = Append(calls, [op |-> "ApplyMaterial", material |-> billboardEntry.material])
    /\ billboardCount' = Len(billboardEntry.billboards)
    /\ data' = 0
    /\ pc' = "bb_chunk"
    /\ UNCHANGED <<billboardRest, lastShader, m_shaderUniforms, shaderUniforms,
                   rendererStates, instancing, pipelineIt, materialIt>>

\* instancing: a material without billboards is passed over
BillboardMaterialSkip ==
    /\ pc = "bb_material"
    /\ instancing
    /\ materialIt <= Len(billboardPipeline.materialMap)
    /\ Len(billboardEntry.billboards) = 0
    /\ materialIt' = materialIt + 1
    /\ UNCHANGED <<commonVars, billboardRest, lastShader, m_shaderUniforms,
                   shaderUniforms, rendererStates, instancing, pipelineIt,
                   billboardCount, data>>

\* the loop over the materials of the pipeline ends
BillboardMaterialsEnd ==
    /\ pc = "bb_material"
    /\ materialIt > Len(billboardPipeline.materialMap)
    /\ pipelineIt' = pipelineIt + 1
    /\ pc' = "bb_pipeline"
    /\ UNCHANGED <<calls, billboardRest, lastShader, m_shaderUniforms, shaderUniforms,
                   rendererStates, instancing, materialIt, billboardCount, data>>

\* instancing: do { Fill; DrawPrimitivesInstanced } while (billboardCount > 0);
\* billboardVector.clear()
BillboardChunk ==
    /\ pc = "bb_chunk"
    /\ LET maxBillboardPerDraw == instanceBufferCount
           renderedBillboardCount ==
               RenderedBillboardCount(billboardCount, maxBillboardPerDraw)
       IN /\ billboardCount' = billboardCount - renderedBillboardCount
          /\ data' = data + renderedBillboardCount
          /\ calls' = calls \o
                <<[op |-> "Fill", offset |-> 0,
                   billboards |-> SubSeq(billboardEntry.billboards, data + 1,
                                         data + renderedBillboardCount)],
                  [op |-> "DrawPrimitivesInstanced",
                   count |-> renderedBillboardCount]>>
    /\ IF billboardCount' > 0
       THEN /\ pc' = "bb_chunk"
            /\ UNCHANGED <<billboards, materialIt>>
       ELSE /\ billboards' = [billboards EXCEPT
                                 ![pipelineIt].materialMap[materialIt].billboards = <<>>]
            /\ materialIt' = materialIt + 1
            /\ pc' = "bb_material"
    /\ UNCHANGED <<bufferVars, basicVars, spriteChainOffset, orderedLocals,
                   uniformLocation, lightVars, opaqueInputs, meshIt, matrixIt, passVars,
                   m_maxLightPassPerObject, drawVars, queuedBillboards,
                   rendererInstancing, billboardPointVertexCount, otherVars, lastShader,
                   m_shaderUniforms, shaderUniforms, rendererStates, instancing,
                   pipelineIt>>

\* &billboardVector[0]: an index out of range on an empty vector, which a build
\* with checked containers aborts on and any other build takes the address of.
FirstElementOutcomes(vector) ==
    IF vector = <<>> THEN {"bb_point_chunk", "aborted"} ELSE {"bb_point_chunk"}

\* no instancing: for (auto& matIt : materialMap), data = &billboardVector[0]
BillboardPointMaterial ==
    /\ pc = "bb_material"
    /\ ~instancing
    /\ materialIt <= Len(billboardPipeline.materialMap)
    /\ billboardCount' = Len(billboardEntry.billboards)
    /\ data' = 0
    /\ pc' \in FirstElementOutcomes(billboardEntry.billboards)
    /\ UNCHANGED <<calls, billboardRest, lastShader, m_shaderUniforms, shaderUniforms,
                   rendererStates, instancing, pipelineIt, materialIt>>

\* no instancing: do { map, write four vertices per billboard, unmap,
\* DrawIndexedPrimitives } while (billboardCount > 0)
BillboardPointChunk ==
    /\ pc = "bb_point_chunk"
    /\ LET maxBillboardPerDraw == Min(s_maxQuads, billboardPointVertexCount \div 4)
           renderedBillboardCount ==
               RenderedBillboardCount(billboardCount, maxBillboardPerDraw)
       IN /\ billboardCount' = billboardCount - renderedBillboardCount
          /\ data' = data + renderedBillboardCount
          /\ calls' = calls \o
                <<[op |-> "MapBillboards", offset |-> 0,
                   vertexCount |-> renderedBillboardCount * 4],
                  [op |-> "UnmapBillboards",
                   billboards |-> SubSeq(billboardEntry.billboards, data + 1,
                                         data + renderedBillboardCount)],
                  [op |-> "DrawIndexedPrimitives",
                   indexCount |-> renderedBillboardCount * 6]>>
    /\ IF billboardCount' > 0
       THEN /\ pc' = "bb_point_chunk"
            /\ UNCHANGED materialIt
       ELSE /\ materialIt' = materialIt + 1
            /\ pc' = "bb_material"
    /\ UNCHANGED <<billboardRest, lastShader, m_shaderUniforms, shaderUniforms,
                   rendererStates, instancing, pipelineIt>>

NextBillboards ==
    \/ BillboardsBegin
    \/ BillboardPipeline
    \/ BillboardPipelineSkip
    \/ BillboardReturn
    \/ BillboardMaterial
    \/ BillboardMaterialSkip
    \/ BillboardMaterialsEnd
    \/ BillboardChunk
    \/ BillboardPointMaterial
    \/ BillboardPointChunk

SpecBillboards == InitBillboards /\ [][NextBillboards]_vars

-----------------------------------------------------------------------------
(* Properties of the instancing path of DrawBillboards *)

InstancedBillboards == m_instancingEnabled /\ rendererInstancing

IsBillboardChunkCall(e) == e.op \in {"Fill", "DrawPrimitivesInstanced"}

\* The k-th of the ceil(n / cap) chunks of a billboard vector.
BillboardChunkOf(vector, cap, k) ==
    SubSeq(vector, (k - 1) * cap + 1, Min(k * cap, Len(vector)))

\* The fills and draws of one material: a fill of each chunk, then its draw.
ExpectedChunkCalls(vector, cap) ==
    [c \in 1..(2 * CeilDiv(Len(vector), cap)) |->
        IF c % 2 = 1
        THEN [op |-> "Fill", offset |-> 0,
              billboards |-> BillboardChunkOf(vector, cap, (c + 1) \div 2)]
        ELSE [op |-> "DrawPrimitivesInstanced",
              count |-> Len(BillboardChunkOf(vector, cap, c \div 2))]]

\* The fills and draws of the materials from m on of a pipeline batch.
RECURSIVE ExpectedMaterialCalls(_, _, _)
ExpectedMaterialCalls(materialMap, m, cap) ==
    IF m > Len(materialMap) THEN <<>>
    ELSE ExpectedChunkCalls(materialMap[m].billboards, cap)
         \o ExpectedMaterialCalls(materialMap, m + 1, cap)

\* The fills and draws of the pipeline batches from p on.
RECURSIVE ExpectedBillboardCalls(_, _, _)
ExpectedBillboardCalls(layer, p, cap) ==
    IF p > Len(layer) THEN <<>>
    ELSE (IF layer[p].enabled
          THEN ExpectedMaterialCalls(layer[p].materialMap, 1, cap)
          ELSE <<>>)
         \o ExpectedBillboardCalls(layer, p + 1, cap)

BillboardChunkCalls == SelectSeq(calls, IsBillboardChunkCall)

\* The instance counts of the draws, in order.
InstancedDrawCounts ==
    LET draws == SelectSeq(calls, LAMBDA e : e.op = "DrawPrimitivesInstanced")
    IN [i \in 1..Len(draws) |-> draws[i].count]

\* C17: with an instance buffer of cap >= 1, the instancing path of
\* DrawBillboards draws each material of n >= 1 queued billboards in ceil(n/cap)
\* instanced draws of cap, ..., cap, remainder instances, each draw immediately
\* preceded by one fill of the instance buffer with exactly the billboards it
\* draws, taken consecutively in queue order.
C17_BillboardChunks ==
    InstancedBillboards =>
        /\ \A i \in 1..Len(calls) :
              calls[i].op = "DrawPrimitivesInstanced" =>
                  /\ i > 1
                  /\ calls[i - 1].op = "Fill"
                  /\ Len(calls[i - 1].billboards) = calls[i].count
                  /\ calls[i].count \in 1..instanceBufferCount
        /\ IsPrefix(BillboardChunkCalls,
                    ExpectedBillboardCalls(queuedBillboards, 1, instanceBufferCount))
        /\ pc = "done" =>
              BillboardChunkCalls =
                  ExpectedBillboardCalls(queuedBillboards, 1, instanceBufferCount)

\* C17 witness: 5 billboards of one material and a capacity of 3 were drawn
\* in two instanced draws, of 3 then 2.
C17_Witness ==
    /\ pc = "done"
    /\ InstancedBillboards
    /\ instanceBufferCount = 3
    /\ Len(queuedBillboards) = 1
    /\ queuedBillboards[1].enabled
    /\ Len(queuedBillboards[1].materialMap) = 1
    /\ Len(queuedBillboards[1].materialMap[1].billboards) = 5
    /\ InstancedDrawCounts = <<3, 2>>

-----------------------------------------------------------------------------
(* DrawBasicSprites: the loops over the pipelines and the materials *)

\* pipeline batches of layer.opaqueSprites
MaxSpritePipelines == 3

\* an entry of a materialMap of layer.opaqueSprites
SpriteMaterialEntry(material, enabled) == [material |-> material, enabled |-> enabled]

\* an entry of layer.opaqueSprites
SpritePipelineEntry(pipeline, enabled, materialMap) ==
    [pipeline |-> pipeline, enabled |-> enabled, materialMap |-> materialMap]

\* The material maps of a pipeline: each of its materials, enabled or not.
SpriteMaterialMaps(pipeline) ==
    CASE pipeline = "pipe1" ->
            {<<SpriteMaterialEntry("matA", a), SpriteMaterialEntry("matB", b)>> :
                a \in BOOLEAN, b \in BOOLEAN}
      [] pipeline = "pipe2" -> {<<SpriteMaterialEntry("matC", c)>> : c \in BOOLEAN}
      [] pipeline = "pipe3" -> {<<SpriteMaterialEntry("matD", d)>> : d \in BOOLEAN}

SpriteBatches ==
    UNION {{SpritePipelineEntry(p, enabled, materialMap) :
               enabled \in BOOLEAN, materialMap \in SpriteMaterialMaps(p)} :
           p \in Pipelines}

\* layer.opaqueSprites: up to maxLen batches of distinct pipelines
SpriteLayers(maxLen) ==
    UNION {{l \in [1..len -> SpriteBatches] :
               \A i, j \in 1..len : i # j => l[i].pipeline # l[j].pipeline} :
           len \in 1..maxLen}

InitSpriteBatches ==
    /\ pc = "sp_begin"
    /\ calls = <<>>
    /\ SpritesIdle
    /\ OrderedIdle
    /\ ShaderIdle
    /\ LightsIdle
    /\ OpaqueIdle
    /\ m_maxLightPassPerObject = DefaultMaxLightPassPerObject
    /\ DrawIdle
    /\ BillboardsIdle
    /\ opaqueSprites \in SpriteLayers(MaxSpritePipelines)
    /\ TransparentIdle
    /\ InitializeIdle

\* what no step of the pipeline loop of DrawBasicSprites changes
spriteBatchRest == <<bufferVars, basicVars, spriteChainOffset, orderedLocals,
                     uniformLocation, lightVars, opaqueInputs, meshIt, matrixIt,
                     instancing, passVars, frameVars>>

spritePipelineEntry == opaqueSprites[pipelineIt]

\* The calls of the loop over the materials from m on: an enabled material is
\* applied, its sampler set and its overlays drawn.
RECURSIVE SpriteMaterialCalls(_, _)
SpriteMaterialCalls(materialMap, m) ==
    IF m > Len(materialMap) THEN <<>>
    ELSE (IF BatchEnabled(materialMap[m])
          THEN <<[op |-> "ApplyMaterial", material |-> materialMap[m].material],
                 [op |-> "SetTextureSampler", material |-> materialMap[m].material],
                 [op |-> "DrawOverlays", material |-> materialMap[m].material]>>
          ELSE <<>>)
         \o SpriteMaterialCalls(materialMap, m + 1)

\* Renderer::SetIndexBuffer, SetMatrix, SetVertexBuffer
SpriteBatchesBegin ==
    /\ pc = "sp_begin"
    /\ calls' = calls \o
          <<[op |-> "SetIndexBuffer", buffer |-> "s_quadIndexBuffer"],
            [op |-> "SetMatrix"],
            [op |-> "SetVertexBuffer", buffer |-> "m_spriteBuffer"]>>
    /\ pc' = "sp_pipeline"
    /\ UNCHANGED <<spriteBatchRest, lastShader, m_shaderUniforms, shaderUniforms,
                   rendererStates, pipelineIt, materialIt>>

\* for (auto& pipelinePair : layer.opaqueSprites), pipelineEntry.enabled
SpritePipeline ==
    /\ pc = "sp_pipeline"
    /\ pipelineIt <= Len(opaqueSprites)
    /\ BatchEnabled(spritePipelineEntry)
    /\ LET pipeline == spritePipelineEntry.pipeline
           shader == GetInstanceShader(pipeline, FALSE)
           cache == GetShaderUniforms(m_shaderUniforms, shader, OpaqueUniformLocations)
       IN /\ rendererStates' = PipelineStates(pipeline)
          /\ IF ShaderChanged(shader, lastShader)
             THEN /\ m_shaderUniforms' = cache
                  /\ shaderUniforms' = cache[shader]
                  /\ lastShader' = shader
             ELSE UNCHANGED <<m_shaderUniforms, shaderUniforms, lastShader>>
          /\ calls' = calls
                \o <<[op |-> "ApplyPipeline", pipeline |-> pipeline,
                      instancing |-> FALSE]>>
                \o (IF ShaderChanged(shader, lastShader)
                    THEN <<[op |-> "SendSceneUniforms", shader |-> shader],
                           [op |-> "SendOverlayUnit", shader |-> shader]>>
                    ELSE <<>>)
    /\ materialIt' = 1
    /\ pc' = "sp_materials"
    /\ UNCHANGED <<spriteBatchRest, pipelineIt>>

\* a pipeline entry that is not enabled is passed over
SpritePipelineSkip ==
    /\ pc = "sp_pipeline"
    /\ pipelineIt <= Len(opaqueSprites)
    /\ ~BatchEnabled(spritePipelineEntry)
    /\ pipelineIt' = pipelineIt + 1
    /\ UNCHANGED <<commonVars, spriteBatchRest, lastShader, m_shaderUniforms,
                   shaderUniforms, rendererStates, materialIt>>

\* for (auto& materialPair : pipelineEntry.materialMap), to its end
SpriteMaterials ==
    /\ pc = "sp_materials"
    /\ calls' = calls \o SpriteMaterialCalls(spritePipelineEntry.materialMap, materialIt)
    /\ materialIt' = Len(spritePipelineEntry.materialMap) + 1
    /\ pipelineIt' = pipelineIt + 1
    /\ pc' = "sp_pipeline"
    /\ UNCHANGED <<spriteBatchRest, lastShader, m_shaderUniforms, shaderUniforms,
                   rendererStates>>

\* the loop over the pipelines ends and DrawBasicSprites returns
SpriteBatchesReturn ==
    /\ pc = "sp_pipeline"
    /\ pipelineIt > Len(opaqueSprites)
    /\ pc' = "done"
    /\ UNCHANGED <<calls, spriteBatchRest, lastShader, m_shaderUniforms, shaderUniforms,
                   rendererStates, pipelineIt, materialIt>>

NextSpriteBatches ==
    \/ SpriteBatchesBegin
    \/ SpritePipeline
    \/ SpritePipelineSkip
    \/ SpriteMaterials
    \/ SpriteBatchesReturn

-----------------------------------------------------------------------------
(* The batched submitters: DrawOpaqueModels, DrawBasicSprites, DrawBillboards *)

InitBatched ==
    \/ InitOpaque
    \/ InitSpriteBatches
    \/ InitBillboards

NextBatched ==
    \/ NextOpaque
    \/ NextSpriteBatches
    \/ NextBillboards

SpecBatched == InitBatched /\ [][NextBatched]_vars

IsApplyPipeline(e) == e.op = "ApplyPipeline"

\* The shader of the pipeline applied by the call e.
AppliedShader(e) == GetInstanceShader(e.pipeline, e.instancing)

\* The position of the last pipeline applied before the call i, 0 if none.
PreviousApply(i) ==
    LET before == {j \in 1..(i - 1) : IsApplyPipeline(calls[j])}
    IN IF before = {} THEN 0 ELSE CHOOSE j \in before : \A k \in before : k <= j

\* The scene uniforms were sent right after the pipeline of the call i.
SceneUniformsSentAt(i) ==
    /\ i < Len(calls)
    /\ calls[i + 1].op = "SendSceneUniforms"
    /\ calls[i + 1].shader = AppliedShader(calls[i])

\* C16: within one invocation of a batched submitter, the scene ambient colour
\* and the eye position are sent to a shader exactly when the shader of the
\* current enabled pipeline differs from the shader of the previously processed
\* enabled pipeline, and always for the first; nothing else sends them.
C16_SceneUniformsPerShader ==
    /\ \A i \in 1..Len(calls) :
          IsApplyPipeline(calls[i]) =>
              (SceneUniformsSentAt(i) <=>
                  \/ PreviousApply(i) = 0
                  \/ AppliedShader(calls[PreviousApply(i)]) # AppliedShader(calls[i]))
    /\ \A i \in 1..Len(calls) :
          calls[i].op = "SendSceneUniforms" => i > 1 /\ IsApplyPipeline(calls[i - 1])

AppliedPipelines ==
    LET applies == SelectSeq(calls, IsApplyPipeline)
    IN [i \in 1..Len(applies) |-> applies[i].pipeline]

\* C16 witness: DrawBasicSprites went through three enabled pipelines, the two
\* that share a shader one after the other, and sent the scene uniforms twice.
C16_Witness ==
    /\ pc = "done"
    /\ opaqueSprites # <<>>
    /\ AppliedPipelines = <<"pipe3", "pipe1", "pipe2">>
    /\ CountOp(calls, "SendSceneUniforms") = 2

\* DrawOpaqueModels and DrawBillboards applied two pipelines that share a
\* shader and sent the scene uniforms once.
SharedShaderOpaque ==
    /\ pc = "done"
    /\ opaqueModels # <<>>
    /\ Len(AppliedPipelines) = 2
    /\ CountOp(calls, "SendSceneUniforms") = 1

SharedShaderBillboards ==
    /\ pc = "done"
    /\ queuedBillboards # <<>>
    /\ Len(AppliedPipelines) = 2
    /\ CountOp(calls, "SendSceneUniforms") = 1

\* A disabled pipeline between two pipelines of one shader does not count.
DisabledBetween ==
    /\ pc = "done"
    /\ Len(opaqueSprites) = 3
    /\ ~opaqueSprites[2].enabled
    /\ opaqueSprites[2].pipeline = "pipe3"
    /\ Len(AppliedPipelines) = 2
    /\ CountOp(calls, "SendSceneUniforms") = 1

-----------------------------------------------------------------------------
(* DrawTransparentModels *)

\* entries of layer.depthSortedMeshData
MaxTransparentModels == 3

\* ForwardRenderQueue::UnbatchedModelData
UnbatchedModelData(material, indexed, matrix) ==
    [material |-> material, indexBuffer |-> indexed, transformMatrix |-> matrix,
     obbSphere |-> Sphere(0, 1)]

TransparentModelChoices ==
    {UnbatchedModelData("matA", TRUE, 0), UnbatchedModelData("matB", FALSE, 8),
     UnbatchedModelData("matC", TRUE, 8), UnbatchedModelData("matD", FALSE, 0)}

\* The orders of the indices 1..n.
IndexOrders(n) == {f \in [1..n -> 1..n] : \A i, j \in 1..n : i # j => f[i] # f[j]}

\* An iteration that follows the storage order of the data.
DataOrderIndex(order, position) == position

\* for (std::size_t index : layer.depthSortedMeshes): the index at a position
SortedIndex(order, position) == order[position]

\* for (i = from; i < to; ++i) SendLightUniforms(shader, lightUniforms, i, i, lightOffset * i)
RECURSIVE SendLightRange(_, _, _, _, _, _)
SendLightRange(shader, uniforms, from, to, chosen, queue) ==
    IF from >= to THEN <<>>
    ELSE SendLightUniforms(shader, uniforms, from, from, uniforms.lightOffset * from,
                           chosen, queue)
         \o SendLightRange(shader, uniforms, from + 1, to, chosen, queue)

\* DrawTransparentModels is entered with m_lights empty, left by an earlier
\* object of the frame, or one of the lists of earlier.
InitTransparentFrom(earlier) ==
    /\ pc = "t_model"
    /\ calls = <<>>
    /\ SpritesIdle
    /\ OrderedIdle
    /\ uniformLocation = OpaqueUniformLocations
    /\ m_shaderUniforms = <<>>
    /\ directionalLights \in
          {[i \in 1..n |-> OpaqueDirectionalLight(i)] : n \in {0, 2, MaxLightPerPass + 1}}
    /\ pointLights \in {[i \in 1..n |-> OpaquePointLight(i)] : n \in {0, 2}}
    /\ spotLights = <<OpaqueSpotLight(1)>>
    /\ m_lights \in {<<>>} \cup {<<LightIndex("Point", 0, 0)>> : n \in 1..Len(pointLights)}
                    \cup earlier
    /\ chooseArgs = NoChoice
    /\ OpaqueIdle
    /\ m_maxLightPassPerObject = DefaultMaxLightPassPerObject
    /\ DrawIdle
    /\ BillboardsIdle
    /\ opaqueSprites = <<>>
    /\ depthSortedMeshData \in SeqsUpTo(TransparentModelChoices, MaxTransparentModels)
    /\ depthSortedMeshes \in IndexOrders(Len(depthSortedMeshData))
    /\ meshIndexIt = 1
    /\ InitializeIdle

InitTransparent == InitTransparentFrom({})

\* what no step of DrawTransparentModels changes
transparentRest == <<bufferVars, basicVars, spriteChainOffset, depthSortedSprites,
                     depthSortedSpriteData, it, it2, updateVertexBuffer,
                     alreadyDrawnCount, spriteIndex, splitChainIt, availableSpriteSpace,
                     split, lastMaterial, lastOverlay, uniformLocation, queueLights,
                     opaqueInputs, opaqueIts, instancing, lightIndex, oldDepthFunc,
                     passCount, pass, statesBefore, m_maxLightPassPerObject, drawVars,
                     billboardVars, opaqueSprites, depthSortedMeshes,
                     depthSortedMeshData, initVars, indexLoop>>

modelData == depthSortedMeshData[SortedIndex(depthSortedMeshes, meshIndexIt)]

\* pipeline and material of the entry, scene uniforms and directional lights
\* when the shader changes
TransparentMaterial ==
    /\ pc = "t_model"
    /\ meshIndexIt <= Len(depthSortedMeshes)
    /\ LET material == modelData.material
           pipeline == GetPipeline(material)
           shader == GetInstanceShader(pipeline, FALSE)
           cache == GetShaderUniforms(m_shaderUniforms, shader, uniformLocation)
           uniforms == cache[shader]
           count == Min(Len(directionalLights), MaxLightPerPass)
       IN /\ lastPipeline' = pipeline
          /\ rendererStates' = IF pipeline # lastPipeline THEN PipelineStates(pipeline)
                               ELSE rendererStates
          /\ IF ShaderChanged(shader, lastShader)
             THEN /\ m_shaderUniforms' = cache
                  /\ shaderUniforms' = uniforms
                  /\ lastShader' = shader
                  /\ lightCount' = IF uniforms.hasLightUniforms THEN count ELSE lightCount
             ELSE UNCHANGED <<m_shaderUniforms, shaderUniforms, lastShader, lightCount>>
          /\ calls' = calls
                \o (IF pipeline # lastPipeline
                    THEN <<[op |-> "ApplyPipeline", pipeline |-> pipeline,
                            instancing |-> FALSE]>>
                    ELSE <<>>)
                \o <<[op |-> "ApplyMaterial", material |-> material]>>
                \o (IF ShaderChanged(shader, lastShader)
                    THEN <<[op |-> "SendSceneUniforms", shader |-> shader]>>
                         \o (IF uniforms.hasLightUniforms
                             THEN SendLightRange(shader, uniforms, 0, count, m_lights,
                                                 m_renderQueue)
                             ELSE <<>>)
                    ELSE <<>>)
    /\ pc' = "t_mesh"
    /\ UNCHANGED <<transparentRest, m_lights, chooseArgs, meshIndexIt>>

\* buffers of the mesh, the closest lights in the slots left, the matrix and
\* the draw call
TransparentMesh ==
    /\ pc = "t_mesh"
    /\ LET object == Sphere(modelData.transformMatrix + modelData.obbSphere.position,
                            modelData.obbSphere.radius)
           choose == shaderUniforms.hasLightUniforms /\ lightCount < MaxLightPerPass
       IN /\ IF choose
             THEN /\ m_lights' \in ChooseLights(m_lights, object, FALSE,
                                                directionalLights, pointLights,
                                                spotLights)
                  /\ chooseArgs' = [called |-> TRUE, object |-> object,
                                    include |-> FALSE]
             ELSE UNCHANGED <<m_lights, chooseArgs>>
          /\ calls' = calls
                \o <<[op |-> "SetBuffers", indexed |-> modelData.indexBuffer]>>
                \o (IF choose
                    THEN SendLightRange(lastShader, shaderUniforms, lightCount,
                                        MaxLightPerPass, m_lights', m_renderQueue)
                    ELSE <<>>)
                \o <<[op |-> "SetMatrix", matrix |-> modelData.transformMatrix],
                     [op |-> "DrawTransparent",
                      index |-> SortedIndex(depthSortedMeshes, meshIndexIt),
                      func |-> IF modelData.indexBuffer THEN "DrawIndexedPrimitives"
                               ELSE "DrawPrimitives",
                      material |-> modelData.material,
                      matrix |-> modelData.transformMatrix]>>
    /\ meshIndexIt' = meshIndexIt + 1
    /\ pc' = "t_model"
    /\ UNCHANGED <<transparentRest, lastPipeline, lastShader, m_shaderUniforms,
                   shaderUniforms, rendererStates, lightCount>>

\* the loop over the depth-sorted meshes ends and DrawTransparentModels returns
TransparentReturn ==
    /\ pc = "t_model"
    /\ meshIndexIt > Len(depthSortedMeshes)
    /\ pc' = "done"
    /\ UNCHANGED <<calls, transparentRest, lastPipeline, lastShader, m_shaderUniforms,
                   shaderUniforms, rendererStates, lightCount, m_lights, chooseArgs,
                   meshIndexIt>>

NextTransparent ==
    \/ TransparentMaterial
    \/ TransparentMesh
    \/ TransparentReturn

SpecTransparent == InitTransparent /\ [][NextTransparent]_vars

TransparentDraws == SelectSeq(calls, LAMBDA e : e.op = "DrawTransparent")

\* C18: DrawTransparentModels issues exactly one draw call per entry of the
\* depth-sorted mesh list, in exactly the order of that list, whatever the
\* pipelines, materials, shaders and lights: none skipped, duplicated, merged
\* or moved.
C18_TransparentOrder ==
    /\ Len(TransparentDraws) <= Len(depthSortedMeshes)
    /\ \A k \in 1..Len(TransparentDraws) :
          /\ TransparentDraws[k].index = depthSortedMeshes[k]
          /\ TransparentDraws[k].material =
                depthSortedMeshData[depthSortedMeshes[k]].material
          /\ TransparentDraws[k].matrix =
                depthSortedMeshData[depthSortedMeshes[k]].transformMatrix
    /\ pc = "t_model" => Len(TransparentDraws) = meshIndexIt - 1
    /\ pc = "done" => Len(TransparentDraws) = Len(depthSortedMeshes)

\* C18 witness: three entries drawn in the order 2, 3, 1, the first and the
\* last of one material and one pipeline with another pipeline between them,
\* with lights sent.
C18_Witness ==
    /\ pc = "done"
    /\ depthSortedMeshes = <<2, 3, 1>>
    /\ depthSortedMeshData[2].material = "matA"
    /\ depthSortedMeshData[3].material = "matD"
    /\ depthSortedMeshData[1].material = "matA"
    /\ Len(TransparentDraws) = 3
    /\ \E i \in 1..Len(calls) : calls[i].op = "SendLight" /\ calls[i].type = "Point"

-----------------------------------------------------------------------------
(* The light limit: SetMaxLightPassPerObject before a submitter runs *)

\* Limits set by the application: below and above the default.
LightLimits == {1, DefaultMaxLightPassPerObject + 1}

\* No call of the submitter has been issued yet.
BeforeSubmitter == pc \in {"q_pipeline", "t_model"} /\ calls = <<>>

limitRest == <<bufferVars, basicVars, spriteChainOffset, orderedVars, shaderVars,
               lightVars, opaqueVars, drawVars, billboardVars, otherVars>>

\* void SetMaxLightPassPerObject(unsigned int maxLightPassPerObject)
SetMaxLightPassPerObject ==
    /\ BeforeSubmitter
    /\ \E maxLightPassPerObject \in LightLimits :
          /\ m_maxLightPassPerObject' = maxLightPassPerObject
          /\ calls' = <<[op |-> "SetMaxLightPassPerObject",
                         value |-> maxLightPassPerObject]>>
    /\ UNCHANGED <<pc, limitRest>>

\* unsigned int GetMaxLightPassPerObject() const
GetMaxLightPassPerObject ==
    /\ Len(calls) = 1
    /\ calls[1].op = "SetMaxLightPassPerObject"
    /\ calls' = Append(calls, [op |-> "GetMaxLightPassPerObject",
                               value |-> m_maxLightPassPerObject])
    /\ UNCHANGED <<pc, m_maxLightPassPerObject, limitRest>>

InitLimit ==
    \/ InitOpaque
    \/ InitTransparent

NextLimit ==
    \/ SetMaxLightPassPerObject
    \/ GetMaxLightPassPerObject
    \/ NextOpaque
    \/ NextTransparent

SpecLimit == InitLimit /\ [][NextLimit]_vars

\* GetMaxLightPassPerObject returns what SetMaxLightPassPerObject was given.
GetReturnsSet ==
    \A i \in 2..Len(calls) :
        calls[i].op = "GetMaxLightPassPerObject" => calls[i].value = calls[i - 1].value

\* The lights sent for the draw call i: the sends that precede it directly.
LightsSentFor(i) ==
    {j \in 1..(i - 1) : \A k \in j..(i - 1) : calls[k].op = "SendLight"}

ActiveLightsFor(i) == {j \in LightsSentFor(i) : calls[j].type # "Disabled"}

\* No pass sends more than m_maxLightPassPerObject active lights.
PassWithinLimit ==
    \A i \in 1..Len(calls) :
        calls[i].op = "DrawMesh" =>
            Cardinality(ActiveLightsFor(i)) <= m_maxLightPassPerObject

\* The pass count of an object without instancing is computed from the limit.
PassCountFromLimit ==
    (PassesComplete /\ ~instancing /\ shaderUniforms.hasLightUniforms) =>
        Len(ObjectDraws(calls, ThisObject)) =
            ExpectedPasses(Len(m_lights), m_maxLightPassPerObject)

\* C19: after SetMaxLightPassPerObject(n), GetMaxLightPassPerObject() returns n
\* and every submitter respects n as the lights-per-pass limit: no pass of any
\* object sends more than n active lights and the pass count of an object with
\* k lights is computed from n.
C19_LightLimit ==
    /\ GetReturnsSet
    /\ PassWithinLimit
    /\ PassCountFromLimit

\* A limit of 1 was set and read back, and a lit object was drawn.
LimitSetAndRead ==
    /\ Len(calls) > 2
    /\ calls[2].op = "GetMaxLightPassPerObject"
    /\ calls[2].value = 1
    /\ PassesComplete
    /\ shaderUniforms.hasLightUniforms

-----------------------------------------------------------------------------
(* Initialize and Uninitialize *)

\* calls of Initialize in one run of the program
MaxInitializeCalls == 2

\* The statements of the try block, in order.
InitSteps ==
    <<"ErrorFlags", "s_quadIndexBuffer.Reset", "BufferMapper", "indices",
      "mapper.Unmap", "s_quadVertexBuffer.Reset", "s_quadVertexBuffer.FillRaw",
      "s_billboardVertexDeclaration.Color", "s_billboardVertexDeclaration.Position",
      "s_billboardVertexDeclaration.TexCoord", "s_billboardVertexDeclaration.Userdata0",
      "s_billboardInstanceDeclaration.InstanceData0",
      "s_billboardInstanceDeclaration.InstanceData1",
      "s_billboardInstanceDeclaration.InstanceData2",
      "s_shadowSampler.SetFilterMode", "s_shadowSampler.SetWrapMode">>

\* The statements that call into the engine and fail by throwing while
\* ErrorFlag_ThrowException is set.
ThrowingSteps == {InitSteps[i] : i \in 2..Len(InitSteps)} \ {"indices"}

\* What a failing statement throws.
Exceptions == {"std::runtime_error", "std::bad_alloc"}

\* The static resources before Initialize.
NoResources ==
    [quadIndexBuffer |-> "empty", mapped |-> FALSE, quadVertexBuffer |-> "empty",
     billboardVertexDeclaration |-> 0, billboardInstanceDeclaration |-> 0,
     shadowSampler |-> 0]

\* The resources after the statement at position i completed.
CompleteStep(res, i) ==
    CASE i = 2 -> [res EXCEPT !.quadIndexBuffer = "allocated"]
      [] i = 3 -> [res EXCEPT !.mapped = TRUE]
      [] i = 4 -> [res EXCEPT !.quadIndexBuffer = "filled"]
      [] i = 5 -> [res EXCEPT !.mapped = FALSE]
      [] i = 6 -> [res EXCEPT !.quadVertexBuffer = "allocated"]
      [] i = 7 -> [res EXCEPT !.quadVertexBuffer = "filled"]
      [] i \in 8..11 -> [res EXCEPT !.billboardVertexDeclaration = Min(4, @ + 1)]
      [] i \in 12..14 -> [res EXCEPT !.billboardInstanceDeclaration = Min(3, @ + 1)]
      [] i \in 15..16 -> [res EXCEPT !.shadowSampler = Min(2, @ + 1)]
      [] OTHER -> res

\* s_quadIndexBuffer.Reset(); s_quadVertexBuffer.Reset()
UninitializedResources(res) ==
    [res EXCEPT !.quadIndexBuffer = "empty", !.quadVertexBuffer = "empty"]

\* A handler for std::runtime_error only.
CatchesRuntimeError(e) == e = "std::runtime_error"

\* catch (const std::exception& e)
CatchesStdException(e) == e \in {"std::exception", "std::runtime_error", "std::bad_alloc"}

InitInitialize ==
    /\ pc = "i_returned"
    /\ calls = <<>>
    /\ SpritesIdle
    /\ OrderedIdle
    /\ ShaderIdle
    /\ LightsIdle
    /\ OpaqueIdle
    /\ m_maxLightPassPerObject = DefaultMaxLightPassPerObject
    /\ DrawIdle
    /\ BillboardsIdle
    /\ opaqueSprites = <<>>
    /\ TransparentIdle
    /\ initStep = 0
    /\ errorFlags = {}
    /\ resources = NoResources
    /\ exception = NoException
    /\ returned = <<>>
    /\ indexLoop = IndexLoopDone

initializeRest == <<bufferVars, basicVars, spriteChainOffset, orderedVars, shaderVars,
                    lightVars, opaqueVars, m_maxLightPassPerObject, drawVars,
                    billboardVars, opaqueSprites, transparentVars, indexLoop>>

\* The number of the running call of Initialize.
ThisCall == Len(returned) + 1

\* bool ForwardRenderTechnique::Initialize(): the call enters the try block
InitializeBegin ==
    /\ pc = "i_returned"
    /\ Len(returned) < MaxInitializeCalls
    /\ initStep' = 1
    /\ pc' = "i_try"
    /\ UNCHANGED <<calls, initializeRest, errorFlags, resources, exception, returned>>

\* the next statement of the try block completes
InitializeStep ==
    /\ pc = "i_try"
    /\ initStep <= Len(InitSteps)
    /\ resources' = CompleteStep(resources, initStep)
    /\ errorFlags' = IF initStep = 1 THEN {"ErrorFlag_ThrowException"} ELSE errorFlags
    /\ calls' = Append(calls, [op |-> "Completed", call |-> ThisCall,
                               step |-> InitSteps[initStep]])
    /\ initStep' = initStep + 1
    /\ UNCHANGED <<pc, initializeRest, exception, returned>>

\* the next statement fails: it throws, the mapper and the flags of the try
\* block are destroyed and the handler is looked for
InitializeThrow ==
    /\ pc = "i_try"
    /\ initStep <= Len(InitSteps)
    /\ InitSteps[initStep] \in ThrowingSteps
    /\ "ErrorFlag_ThrowException" \in errorFlags
    /\ exception' \in Exceptions
    /\ calls' = Append(calls, [op |-> "Thrown", call |-> ThisCall,
                               step |-> InitSteps[initStep]])
    /\ resources' = [resources EXCEPT !.mapped = FALSE]
    /\ errorFlags' = {}
    /\ pc' = "i_catch"
    /\ UNCHANGED <<initializeRest, initStep, returned>>

\* catch (const std::exception& e) { NazaraError(...); return false; }
InitializeCatch ==
    /\ pc = "i_catch"
    /\ IF CatchesStdException(exception)
       THEN /\ calls' = Append(calls, [op |-> "NazaraError", call |-> ThisCall,
                                       step |-> "Failed to initialise"])
            /\ returned' = Append(returned, FALSE)
            /\ exception' = NoException
            /\ pc' = "i_returned"
       ELSE /\ pc' = "i_escaped"
            /\ UNCHANGED <<calls, returned, exception>>
    /\ UNCHANGED <<initializeRest, initStep, errorFlags, resources>>

\* the try block is left, its flags are destroyed; return true
InitializeReturn ==
    /\ pc = "i_try"
    /\ initStep > Len(InitSteps)
    /\ errorFlags' = {}
    /\ returned' = Append(returned, TRUE)
    /\ pc' = "i_returned"
    /\ UNCHANGED <<calls, initializeRest, initStep, resources, exception>>

\* void ForwardRenderTechnique::Uninitialize()
Uninitialize ==
    /\ pc = "i_returned"
    /\ returned # <<>>
    /\ resources # UninitializedResources(resources)
    /\ resources' = UninitializedResources(resources)
    /\ UNCHANGED <<commonVars, initializeRest, initStep, errorFlags, exception, returned>>

NextInitialize ==
    \/ InitializeBegin
    \/ InitializeStep
    \/ InitializeThrow
    \/ InitializeCatch
    \/ InitializeReturn
    \/ Uninitialize

SpecInitialize == InitInitialize /\ [][NextInitialize]_vars

\* The statements the call k completed, those that threw in it and its errors.
CompletedIn(k) ==
    {calls[i].step : i \in {j \in 1..Len(calls) :
                               calls[j].op = "Completed" /\ calls[j].call = k}}
ThrownIn(k) ==
    {i \in 1..Len(calls) : calls[i].op = "Thrown" /\ calls[i].call = k}
ErrorsIn(k) ==
    {i \in 1..Len(calls) : calls[i].op = "NazaraError" /\ calls[i].call = k}

AllInitSteps == {InitSteps[i] : i \in 1..Len(InitSteps)}

-----------------------------------------------------------------------------
(* Disabled batches of the batched submitters *)

\* The materials of the pipeline batches of a layer that are not enabled.
MaterialsOfDisabledPipelines(layer) ==
    UNION {{layer[p].materialMap[m].material : m \in DOMAIN layer[p].materialMap} :
           p \in {q \in DOMAIN layer : ~layer[q].enabled}}

\* The materials of the material batches of a layer that are not enabled.
DisabledMaterials(layer) ==
    UNION {{layer[p].materialMap[m].material :
               m \in {k \in DOMAIN layer[p].materialMap :
                         ~layer[p].materialMap[k].enabled}} :
           p \in DOMAIN layer}

DisabledPipelines(layer) == {layer[p].pipeline : p \in {q \in DOMAIN layer : ~layer[q].enabled}}

\* The shaders of the enabled pipeline batches, with or without instancing.
EnabledShaders(layer) ==
    UNION {{GetInstanceShader(layer[p].pipeline, i) : i \in BOOLEAN} :
           p \in {q \in DOMAIN layer : layer[q].enabled}}

\* <<pipeline, material>> positions of the opaque material batches not enabled.
DisabledOpaqueBatches ==
    UNION {{<<p, m>> : m \in {k \in DOMAIN opaqueModels[p].materialMap :
                                 ~opaqueModels[p].materialMap[k].enabled}} :
           p \in DOMAIN opaqueModels}

\* The call e binds, fills or draws something of one of the materials.
TouchesMaterial(e, materials) ==
    \/ e.op \in {"ApplyMaterial", "SetTextureSampler", "DrawOverlays"}
       /\ e.material \in materials
    \/ e.op \in {"Fill", "UnmapBillboards"}
       /\ "billboards" \in DOMAIN e
       /\ \E b \in 1..Len(e.billboards) : e.billboards[b][1] \in materials

\* C21: in DrawOpaqueModels, DrawBasicSprites and DrawBillboards a pipeline
\* batch or a material batch whose enabled flag is false causes no pipeline
\* bind, no material bind, no uniform send, no buffer fill and no draw call
\* for its content.
C21_DisabledSkipped ==
    \A i \in 1..Len(calls) :
        LET e == calls[i]
        IN /\ ~TouchesMaterial(e, DisabledMaterials(opaqueModels))
           /\ IsMeshDraw(e) => <<e.object[1], e.object[2]>> \notin DisabledOpaqueBatches
           /\ ~TouchesMaterial(e, DisabledMaterials(opaqueSprites))
           /\ ~TouchesMaterial(e, MaterialsOfDisabledPipelines(opaqueSprites))
           /\ ~TouchesMaterial(e, MaterialsOfDisabledPipelines(queuedBillboards))
           /\ e.op = "ApplyPipeline" =>
                 e.pipeline \notin DisabledPipelines(opaqueSprites)
                                   \cup DisabledPipelines(queuedBillboards)
           /\ (e.op = "SendSceneUniforms" /\ opaqueSprites # <<>>) =>
                 e.shader \in EnabledShaders(opaqueSprites)
           /\ (e.op = "SendSceneUniforms" /\ queuedBillboards # <<>>) =>
                 e.shader \in EnabledShaders(queuedBillboards)

\* C21 witness: DrawBillboards returned after passing over a disabled pipeline
\* batch that holds billboards and drawing an enabled one.
C21_Witness ==
    /\ pc = "done"
    /\ Len(queuedBillboards) = 2
    /\ ~queuedBillboards[1].enabled
    /\ queuedBillboards[1].materialMap[1].billboards # <<>>
    /\ queuedBillboards[2].enabled
    /\ CountOp(calls, "ApplyPipeline") = 1
    /\ \E i \in 1..Len(calls) : calls[i].op \in {"Fill", "UnmapBillboards"}

\* DrawOpaqueModels passed over a disabled material batch that holds instances.
DisabledOpaqueMaterialPassed ==
    /\ pc = "done"
    /\ DisabledOpaqueBatches # {}
    /\ CountOp(calls, "DrawMesh") > 0

\* DrawBasicSprites passed over a disabled pipeline and a disabled material.
DisabledSpriteBatchesPassed ==
    /\ pc = "done"
    /\ DisabledPipelines(opaqueSprites) # {}
    /\ DisabledMaterials(opaqueSprites) \ MaterialsOfDisabledPipelines(opaqueSprites) # {}
    /\ CountOp(calls, "DrawOverlays") > 0

\* ---------------------------------------------------------------------------
\* The material bound at a draw call
\* ---------------------------------------------------------------------------

\* The material applied at position i of a call log: the material of the last
\* ApplyMaterial after the last ApplyPipeline before i, Null when there is none.
BoundMaterial(log, i) ==
    LET binds == {j \in 1..(i - 1) : log[j].op \in {"ApplyPipeline", "ApplyMaterial"}}
    IN IF binds = {} THEN Null
       ELSE LET last == CHOOSE j \in binds : \A k \in binds : k <= j
            IN IF log[last].op = "ApplyMaterial" THEN log[last].material ELSE Null

\* The materials owning the geometry drawn by the call at position i: the
\* material batch of a mesh, of a sprite batch, or of the billboards filled or
\* copied right before a billboard draw.
DrawnMaterials(log, i) ==
    LET e == log[i]
    IN IF IsMeshDraw(e)
       THEN {opaqueModels[e.object[1]].materialMap[e.object[2]].material}
       ELSE IF e.op = "DrawOverlays" THEN {e.material}
       ELSE IF e.op \in {"DrawPrimitivesInstanced", "DrawIndexedPrimitives"}
       THEN {log[i - 1].billboards[b][1] : b \in 1..Len(log[i - 1].billboards)}
       ELSE {}

\* Every draw of the log is issued with the material of its geometry applied.
MaterialBoundAtDraws(log) ==
    \A i \in 1..Len(log) : \A material \in DrawnMaterials(log, i) :
        BoundMaterial(log, i) = material

\* C22: each draw call of DrawOpaqueModels, of the sprite batches and of
\* DrawBillboards, with and without instancing, is preceded, after the most
\* recent pipeline bind, by an Apply of the material that owns the drawn
\* geometry, with no Apply of a different material in between.
C22_MaterialBound == MaterialBoundAtDraws(calls)

\* The same statement for the draws of the instanced paths, the opaque meshes
\* and the sprite batches only.
MaterialBoundExceptPointBillboards ==
    \A i \in 1..Len(calls) :
        calls[i].op # "DrawIndexedPrimitives" =>
            \A material \in DrawnMaterials(calls, i) :
                BoundMaterial(calls, i) = material

\* DrawBillboards drew a material's billboards without instancing.
PointBillboardsDrawn ==
    /\ pc = "done"
    /\ \E i \in 1..Len(calls) :
          /\ calls[i].op = "DrawIndexedPrimitives"
          /\ DrawnMaterials(calls, i) # {}

\* DrawBillboards drew a material's billboards with instancing.
InstancedBillboardsDrawn ==
    /\ pc = "done"
    /\ \E i \in 1..Len(calls) :
          /\ calls[i].op = "DrawPrimitivesInstanced"
          /\ DrawnMaterials(calls, i) # {}

\* ---------------------------------------------------------------------------
\* State caching between the depth-sorted entries
\* ---------------------------------------------------------------------------

\* The positions i < j of two transparent draws with no draw between them.
ConsecutiveTransparentDraws ==
    {d \in (1..Len(calls)) \X (1..Len(calls)) :
        /\ d[1] < d[2]
        /\ calls[d[1]].op = "DrawTransparent"
        /\ calls[d[2]].op = "DrawTransparent"
        /\ \A k \in (d[1] + 1)..(d[2] - 1) : calls[k].op # "DrawTransparent"}

\* The operations called between two positions of the log.
OpsBetween(i, j) == {calls[k].op : k \in (i + 1)..(j - 1)}

\* Between two transparent entries the pipeline is applied exactly when it
\* differs from the previous entry's.
TransparentPipelineCached ==
    \A d \in ConsecutiveTransparentDraws :
        ("ApplyPipeline" \in OpsBetween(d[1], d[2]))
            <=> (GetPipeline(calls[d[1]].material) # GetPipeline(calls[d[2]].material))

\* Between two transparent entries the shader-global uniforms are sent exactly
\* when the shader differs from the previous entry's.
TransparentShaderCached ==
    \A d \in ConsecutiveTransparentDraws :
        ("SendSceneUniforms" \in OpsBetween(d[1], d[2]))
            <=> (GetInstanceShader(GetPipeline(calls[d[1]].material), FALSE)
                    # GetInstanceShader(GetPipeline(calls[d[2]].material), FALSE))

\* Between two transparent entries the material is applied exactly when it
\* differs from the previous entry's.
TransparentMaterialCached ==
    \A d \in ConsecutiveTransparentDraws :
        ("ApplyMaterial" \in OpsBetween(d[1], d[2]))
            <=> (calls[d[1]].material # calls[d[2]].material)

\* C23: in DrawTransparentModels, when an entry has the same pipeline, the
\* same material or the same shader as the previous entry, that pipeline is not
\* applied again, that material is not applied again and the shader-global
\* uniforms are not sent again; a rebind happens only when the value differs
\* from the previous entry's.
C23_RedundantBindsSkipped ==
    /\ TransparentPipelineCached
    /\ TransparentShaderCached
    /\ TransparentMaterialCached

\* DrawTransparentModels drew two entries of one material one after the other.
SameMaterialTwice ==
    /\ pc = "done"
    /\ \E d \in ConsecutiveTransparentDraws : calls[d[1]].material = calls[d[2]].material

\* A sequence without the elements equal to their predecessor.
RECURSIVE WithoutRepeats(_)
WithoutRepeats(s) ==
    IF Len(s) <= 1 THEN s
    ELSE LET rest == WithoutRepeats(Tail(s))
         IN IF s[1] = s[2] THEN rest ELSE <<s[1]>> \o rest

\* The values of a field of the calls op of the log, in order.
FieldOfCalls(op, field) ==
    LET sel == SelectSeq(calls, LAMBDA e : e.op = op)
    IN [i \in 1..Len(sel) |-> sel[i][field]]

\* The materials of the sprite entries in depth order.
OrderedMaterials ==
    [i \in 1..Len(depthSortedSprites) |->
        depthSortedSpriteData[depthSortedSprites[i]].material]

\* When DrawOrderedSprites returns it has applied the material, the pipeline
\* and the shader-global uniforms once per change along the depth order.
OrderedBindsCached ==
    (pc = "done" /\ ~IsTruncated(calls)) =>
        /\ FieldOfCalls("ApplyMaterial", "material") = WithoutRepeats(OrderedMaterials)
        /\ FieldOfCalls("ApplyPipeline", "pipeline")
              = WithoutRepeats([i \in 1..Len(OrderedMaterials) |->
                                   GetPipeline(OrderedMaterials[i])])
        /\ FieldOfCalls("SendSceneUniforms", "shader")
              = WithoutRepeats([i \in 1..Len(OrderedMaterials) |->
                                   GetShader(GetPipeline(OrderedMaterials[i]))])

\* DrawOrderedSprites returned after two entries of one material.
OrderedSameMaterialTwice ==
    /\ pc = "done"
    /\ ~IsTruncated(calls)
    /\ Len(OrderedMaterials) = 2
    /\ OrderedMaterials[1] = OrderedMaterials[2]

\* ---------------------------------------------------------------------------
\* The lights of a transparent mesh
\* ---------------------------------------------------------------------------

\* What the light slot of a shader holds after the calls of a log: the type
\* and the index of the last light sent to it, Null when none was sent.
SlotLight(log, shader, slot) ==
    LET sent == {i \in 1..Len(log) : /\ log[i].op = "SendLight"
                                     /\ log[i].shader = shader
                                     /\ log[i].slot = slot}
    IN IF sent = {} THEN Null
       ELSE LET last == CHOOSE i \in sent : \A k \in sent : k <= i
            IN <<log[last].type, log[last].index>>

\* The light the slot of a transparent mesh is to hold: the directional
\* lights of the queue first, then the closest lights of chosen from its first
\* entry on, and a disabled light in the slots left.
NearestLightOfSlot(slot, chosen) ==
    LET d == Min(Len(directionalLights), MaxLightPerPass)
    IN IF slot < d THEN <<"Directional", slot>>
       ELSE IF slot - d < Len(chosen)
       THEN <<chosen[slot - d + 1].type, chosen[slot - d + 1].index>>
       ELSE <<"Disabled", 0>>

\* DrawTransparentModels has just drawn a mesh with a light-capable shader.
LitTransparentDrawn ==
    /\ calls # <<>>
    /\ calls[Len(calls)].op = "DrawTransparent"
    /\ shaderUniforms.hasLightUniforms

\* The sphere of the mesh drawn last.
LastDrawnSphere ==
    LET last == depthSortedMeshData[calls[Len(calls)].index]
    IN Sphere(last.transformMatrix + last.obbSphere.position, last.obbSphere.radius)

\* C24: when a transparent mesh is drawn with a light-capable shader, with m
\* the lights-per-pass limit and d = min(number of directional lights, m), the
\* slots 0..d-1 hold the queue's directional lights and the slots d..m-1 hold
\* the entries 0..m-d-1 of the ChooseLights result for that mesh, the slots
\* left being disabled.
C24_NearestLights ==
    LitTransparentDrawn =>
        \E chosen \in ChooseLights(m_lights, LastDrawnSphere, FALSE, directionalLights,
                                   pointLights, spotLights) :
            \A slot \in 0..(MaxLightPerPass - 1) :
                SlotLight(calls, lastShader, slot) = NearestLightOfSlot(slot, chosen)

\* The same statement for the queues without directional lights.
NearestLightsWithoutDirectional ==
    directionalLights = <<>> => C24_NearestLights

\* A lit transparent mesh was drawn with directional lights and closer lights
\* in the queue.
LitTransparentWithBothKinds ==
    /\ LitTransparentDrawn
    /\ Len(directionalLights) \in 1..(MaxLightPerPass - 1)
    /\ chooseArgs.called
    /\ m_lights # <<>>

\* A lit transparent mesh was drawn with no directional light in the queue.
LitTransparentWithoutDirectional ==
    /\ LitTransparentDrawn
    /\ directionalLights = <<>>
    /\ chooseArgs.called
    /\ m_lights # <<>>

\* ---------------------------------------------------------------------------
\* The lights of the passes of an opaque object
\* ---------------------------------------------------------------------------

\* The positions of the draws of the passes of the object being drawn.
PassDrawsOfThisObject ==
    {i \in 1..Len(calls) : calls[i].op = "DrawMesh" /\ calls[i].object = ThisObject}

\* The call that sent slot s for the draw at position i: the sends of a pass
\* are the MaxLightPerPass calls before its draw.
SlotSend(i, s) == calls[i - MaxLightPerPass + s]

\* The send of a slot carries the light ranked j of m_lights, or disables the
\* slot when no light has that rank.
SendsRank(e, j) ==
    IF j < Len(m_lights)
    THEN e.type = m_lights[j + 1].type /\ e.index = m_lights[j + 1].index
    ELSE e.type = "Disabled"

\* The <<pass, slot>> pairs of the object in which the light ranked j was sent.
SendsOfRank(j) ==
    {ps \in (0..(passCount - 1)) \X (0..(MaxLightPerPass - 1)) :
        \E i \in PassDrawsOfThisObject :
            /\ calls[i].pass = ps[1]
            /\ SlotSend(i, ps[2]).type = m_lights[j + 1].type
            /\ SlotSend(i, ps[2]).index = m_lights[j + 1].index}

\* C25: for a non-instanced opaque object with k selected lights and m lights
\* per pass, the light ranked j in the ChooseLights result is sent in pass
\* floor(j/m) into slot j mod m, at uniform location base + lightOffset *
\* (j mod m); each selected light is sent in exactly one pass, and every slot
\* of a pass that has no light left is disabled.
C25_LightDistribution ==
    pc = "q_pass" =>
        /\ \A i \in PassDrawsOfThisObject : \A s \in 0..(MaxLightPerPass - 1) :
              LET e == SlotSend(i, s)
              IN /\ i > MaxLightPerPass
                 /\ e.op = "SendLight"
                 /\ e.shader = lastShader
                 /\ e.slot = s
                 /\ e.location = shaderUniforms.type + shaderUniforms.lightOffset * s
                 /\ SendsRank(e, calls[i].pass * MaxLightPerPass + s)
        /\ pass >= passCount =>
              \A j \in 0..(Len(m_lights) - 1) :
                  SendsOfRank(j) = {<<j \div MaxLightPerPass, j % MaxLightPerPass>>}

\* C25 witness: the passes of a non-instanced object are complete with more
\* lights than a pass holds and a last pass that has slots left.
C25_Witness ==
    /\ pc = "q_pass"
    /\ pass >= passCount
    /\ passCount > 1
    /\ Len(m_lights) > MaxLightPerPass
    /\ Len(m_lights) % MaxLightPerPass # 0
    /\ Cardinality(PassDrawsOfThisObject) = passCount

\* ---------------------------------------------------------------------------
\* Maps and unmaps of the streaming vertex buffers
\* ---------------------------------------------------------------------------

\* The three submitters that stream vertices: DrawBasicSprites,
\* DrawOrderedSprites and DrawBillboards.
InitStreaming == InitBasic \/ InitOrdered \/ InitBillboards

NextStreaming == NextBasic \/ NextOrdered \/ NextBillboards

SpecStreaming == InitStreaming /\ [][NextStreaming]_vars

MapOps == {"Map", "MapBillboards"}
UnmapOps == {"Unmap", "UnmapBillboards"}
StreamDrawOps == {"Draw", "DrawIndexedPrimitives"}

\* Maps less unmaps among the first i calls of the log.
MapDepth(i) ==
    Cardinality({k \in 1..i : calls[k].op \in MapOps})
        - Cardinality({k \in 1..i : calls[k].op \in UnmapOps})

\* C26: in DrawBasicSprites, DrawOrderedSprites and the non-instanced path of
\* DrawBillboards the maps and unmaps of the vertex buffer strictly alternate
\* starting with a map, the buffer is never mapped when a draw call is issued,
\* and it is unmapped when the submitter returns, the split path of
\* DrawOrderedSprites included.
C26_MapDiscipline ==
    /\ \A i \in 0..Len(calls) : MapDepth(i) \in {0, 1}
    /\ \A i \in 1..Len(calls) :
          calls[i].op \in StreamDrawOps => MapDepth(i - 1) = 0
    /\ pc \in {"b_draw", "o_draw"} => ~mapped
    /\ pc = "done" => ~mapped
    /\ (pc = "done" /\ ~IsTruncated(calls)) => MapDepth(Len(calls)) = 0

\* C26 witness: DrawOrderedSprites is about to draw after the second fill,
\* which split a chain.
C26_Witness ==
    /\ pc = "o_draw"
    /\ split
    /\ ~mapped
    /\ ~IsTruncated(calls)
    /\ CountOp(calls, "Map") = 2
    /\ CountOp(calls, "Unmap") = 2
    /\ CountOp(calls, "Draw") >= 1

\* DrawBasicSprites returned after two fills.
BasicReturnedAfterTwoFills ==
    /\ pc = "done"
    /\ ~IsTruncated(calls)
    /\ CountOp(calls, "Map") = 2
    /\ CountOp(calls, "Unmap") = 2
    /\ CountOp(calls, "Draw") = 2

\* DrawBillboards returned after two maps of the vertex buffer.
PointBillboardsReturnedAfterTwoMaps ==
    /\ pc = "done"
    /\ CountOp(calls, "MapBillboards") >= 2
    /\ CountOp(calls, "UnmapBillboards") = CountOp(calls, "MapBillboards")

\* ---------------------------------------------------------------------------
\* The range of the buffer drawn by DrawOrderedSprites
\* ---------------------------------------------------------------------------

\* DrawOrderedSprites has issued a draw and has not mapped the buffer since.
OrderedDrawIssued ==
    /\ pc \in {"o_draw", "o_map", "done"}
    /\ ~IsTruncated(calls)
    /\ calls # <<>>
    /\ calls[Len(calls)].op = "Draw"

\* C27: for every draw issued by DrawOrderedSprites, with first quad spriteIndex
\* and quad count spriteCount, spriteIndex + spriteCount is at most the number
\* of quads copied into the buffer by the most recent fill, which is at most
\* the capacity of the buffer.
C27_DrawsInsideFill ==
    OrderedDrawIssued =>
        LET draw == calls[Len(calls)]
        IN /\ draw.first + draw.count <= vertices
           /\ vertices <= maxSpriteCount

\* The same statement for the draws issued before any chain was split.
DrawsInsideFillBeforeSplit ==
    (OrderedDrawIssued /\ CountOp(calls, "Map") = 1) =>
        calls[Len(calls)].first + calls[Len(calls)].count <= vertices

\* No fill copies more quads than the buffer holds.
FillWithinCapacity == vertices <= maxSpriteCount

\* DrawOrderedSprites drew a chain from the second fill of the buffer.
OrderedDrewAfterRefill ==
    /\ OrderedDrawIssued
    /\ CountOp(calls, "Map") = 2
    /\ CountOp(calls, "Draw") >= 2

\* ---------------------------------------------------------------------------
\* The chunks of an instanced mesh
\* ---------------------------------------------------------------------------

\* The positions of the instanced draws of pass p of the mesh being drawn.
InstancedDrawsOfPass(p) ==
    {i \in 1..Len(calls) : /\ calls[i].op = "DrawInstanced"
                           /\ calls[i].object = ThisObject
                           /\ calls[i].pass = p}

\* The rank of the draw at position i among the draws of its pass, from 1.
ChunkRank(i) == Cardinality({k \in InstancedDrawsOfPass(calls[i].pass) : k <= i})

\* C28: in the instancing path of DrawOpaqueModels, for a mesh with I instances
\* and an instance buffer of cap >= 1 matrices, every light pass issues
\* ceil(I/cap) instanced draws, each of at most cap instances, whose counts sum
\* to I and whose matrices are consecutive slices of the instance list in
\* order; each draw is immediately preceded by a fill of the instance buffer
\* with exactly the matrices it draws.
C28_InstanceChunks ==
    pc = "q_inst_pass" =>
        \A p \in 0..(pass - 1) :
            /\ Cardinality(InstancedDrawsOfPass(p))
                  = CeilDiv(Len(instances), instanceBufferCount)
            /\ \A i \in InstancedDrawsOfPass(p) :
                  LET from == (ChunkRank(i) - 1) * instanceBufferCount
                      to == Min(from + instanceBufferCount, Len(instances))
                  IN /\ calls[i].count \in 1..instanceBufferCount
                     /\ calls[i].count = to - from
                     /\ i > 1
                     /\ calls[i - 1].op = "Fill"
                     /\ calls[i - 1].matrices = SubSeq(instances, from + 1, to)

\* C28 witness: two passes of an instanced mesh are complete, each in two
\* chunks of which the last is not full.
C28_Witness ==
    /\ pc = "q_inst_pass"
    /\ pass = 2
    /\ instanceBufferCount < Len(instances)
    /\ Len(instances) % instanceBufferCount # 0
    /\ Cardinality(InstancedDrawsOfPass(0)) = 2
    /\ Cardinality(InstancedDrawsOfPass(1)) = 2

\* ---------------------------------------------------------------------------
\* Batches without items
\* ---------------------------------------------------------------------------

\* The calls that map or fill a buffer of items, or draw them.
IsItemCall(e) ==
    e.op \in {"Fill", "MapBillboards", "UnmapBillboards", "DrawPrimitivesInstanced",
              "DrawIndexedPrimitives", "DrawInstanced", "DrawMesh"}

\* The number of items a call maps, fills or draws.
ItemCount(e) ==
    CASE e.op = "Fill" /\ "billboards" \in DOMAIN e -> Len(e.billboards)
      [] e.op = "Fill" /\ "matrices" \in DOMAIN e -> Len(e.matrices)
      [] e.op = "MapBillboards" -> e.vertexCount \div 4
      [] e.op = "UnmapBillboards" -> Len(e.billboards)
      [] e.op = "DrawIndexedPrimitives" -> e.indexCount \div 6
      [] e.op \in {"DrawPrimitivesInstanced", "DrawInstanced", "DrawMesh"} -> e.count

\* The instance list of the mesh entry a mesh draw belongs to.
DrawnInstances(e) ==
    opaqueModels[e.object[1]].materialMap[e.object[2]].meshMap[e.object[3]].instances

\* C29: a material batch whose item collection is empty (an empty billboard
\* vector in either path of DrawBillboards, an empty instance list in
\* DrawOpaqueModels) causes no buffer map or fill and no draw call: every map,
\* fill and draw is of the items of a batch that has some.
C29_EmptyBatchesSkipped ==
    \A i \in 1..Len(calls) :
        /\ IsItemCall(calls[i]) => ItemCount(calls[i]) > 0
        /\ IsMeshDraw(calls[i]) => DrawnInstances(calls[i]) # <<>>

\* The same statement for the calls of DrawOpaqueModels and of the instancing
\* path of DrawBillboards.
EmptyBatchesSkippedWithInstancing ==
    \A i \in 1..Len(calls) :
        /\ calls[i].op \in {"Fill", "DrawPrimitivesInstanced", "DrawInstanced", "DrawMesh"}
              => ItemCount(calls[i]) > 0
        /\ IsMeshDraw(calls[i]) => DrawnInstances(calls[i]) # <<>>

\* An enabled pipeline batch of the queue holds a material without billboards.
HasEmptyBillboardBatch ==
    \E p \in DOMAIN queuedBillboards :
        /\ queuedBillboards[p].enabled
        /\ \E m \in DOMAIN queuedBillboards[p].materialMap :
              queuedBillboards[p].materialMap[m].billboards = <<>>

\* DrawBillboards returned from its instancing path after a material without
\* billboards.
InstancedEmptyBatchPassed ==
    /\ pc = "done"
    /\ HasEmptyBillboardBatch
    /\ instancing
    /\ CountOp(calls, "DrawPrimitivesInstanced") > 0

\* DrawBillboards returned from its path without instancing after a material
\* without billboards.
PointEmptyBatchPassed ==
    /\ pc = "done"
    /\ HasEmptyBillboardBatch
    /\ ~instancing
    /\ CountOp(calls, "DrawIndexedPrimitives") > 0

\* DrawOpaqueModels returned after a mesh without instances.
EmptyInstanceListPassed ==
    /\ pc = "done"
    /\ CountOp(calls, "DrawMesh") > 0
    /\ \E p \in DOMAIN opaqueModels : \E m \in DOMAIN opaqueModels[p].materialMap :
          /\ opaqueModels[p].materialMap[m].enabled
          /\ \E e \in DOMAIN opaqueModels[p].materialMap[m].meshMap :
                opaqueModels[p].materialMap[m].meshMap[e].instances = <<>>

\* An empty sprite-chain list makes DrawBasicSprites map and draw nothing.
EmptyChainListSkipped ==
    spriteChainVector = <<>> => calls = <<>>

\* DrawBasicSprites returned from an empty sprite-chain list.
EmptyChainListPassed == pc = "done" /\ spriteChainVector = <<>> /\ calls = <<>>

\* ---------------------------------------------------------------------------
\* The entries of the uniform cache
\* ---------------------------------------------------------------------------

\* The call emplaced an entry for the shader.
EntryCreated(e, shader) == IsGet(e, shader) /\ e.connected > 0

\* No notification for the shader follows call i.
NoInvalidationSince(shader, i) ==
    \A k \in (i + 1)..Len(calls) : ~IsInvalidation(calls[k], shader)

\* The entries emplaced for the shader since its last notification.
LiveEntries(shader) ==
    {i \in 1..Len(calls) : /\ EntryCreated(calls[i], shader)
                           /\ NoInvalidationSince(shader, i)}

\* The cache holds at most one entry per shader, and an entry for a shader only
\* if GetShaderUniforms was called for it after its last notification.
CacheEntriesJustified ==
    \A shader \in Shaders :
        /\ Cardinality(LiveEntries(shader)) <= 1
        /\ shader \in DOMAIN m_shaderUniforms =>
              \E i \in 1..Len(calls) : /\ IsGet(calls[i], shader)
                                       /\ NoInvalidationSince(shader, i)

\* The step is a notification: it logs one OnShaderInvalidated.
NotificationStep ==
    /\ Len(calls') = Len(calls) + 1
    /\ calls'[Len(calls')].op = "OnShaderInvalidated"

\* The step removes the entry of the shader notified and changes no other.
RemovesOnlyNotified ==
    LET notified == calls'[Len(calls')].shader
    IN /\ notified \notin DOMAIN m_shaderUniforms'
       /\ \A other \in Shaders \ {notified} :
             /\ other \in DOMAIN m_shaderUniforms' <=> other \in DOMAIN m_shaderUniforms
             /\ other \in DOMAIN m_shaderUniforms =>
                   m_shaderUniforms'[other] = m_shaderUniforms[other]

\* C30: after any sequence of GetShaderUniforms calls and notifications the
\* cache holds at most one entry per shader, and an entry for a shader only if
\* GetShaderUniforms was called for it after its last notification; a
\* notification for a shader removes its entry and leaves the entries of the
\* other shaders unchanged.
C30_CacheInvariant ==
    /\ []CacheEntriesJustified
    /\ [][NotificationStep => RemovesOnlyNotified]_vars

\* C30 witness: both shaders were cached and a notification for the first
\* removed its entry and left the other's.
C30_Witness ==
    /\ Len(calls) = 3
    /\ calls[1].op = "GetShaderUniforms"
    /\ calls[2].op = "GetShaderUniforms"
    /\ calls[2].shader # calls[1].shader
    /\ IsInvalidation(calls[3], calls[1].shader)
    /\ DOMAIN m_shaderUniforms = {calls[2].shader}
    /\ m_shaderUniforms[calls[2].shader] = calls[2].uniforms

\* An entry is in the cache exactly when a call for its shader follows the
\* shader's last notification.
CacheEntriesExact ==
    \A shader \in Shaders :
        shader \in DOMAIN m_shaderUniforms <=>
            \E i \in 1..Len(calls) : /\ IsGet(calls[i], shader)
                                     /\ NoInvalidationSince(shader, i)

\* ---------------------------------------------------------------------------
\* The list of lights read by SendLightUniforms
\* ---------------------------------------------------------------------------

\* m_lights as the last object of an earlier frame left it, when the queue
\* held a second spot light.
EarlierFrameLights == {<<LightIndex("Spot", 4, 1)>>}

\* The submitters of meshes that send lights, the transparent one entered
\* also with the list of an earlier frame.
InitLitMeshes ==
    \/ InitOpaque
    \/ InitTransparentFrom(EarlierFrameLights)

NextLitMeshes == NextOpaque \/ NextTransparent

SpecLitMeshes == InitLitMeshes /\ [][NextLitMeshes]_vars

\* The calls of the step that send an entry of m_lights.
LightReads ==
    {i \in (Len(calls) + 1)..Len(calls') :
        calls'[i].op = "SendLight" /\ calls'[i].type # "Disabled"}

\* The sphere of the object the step draws: an instance of an opaque mesh, or
\* a transparent mesh.
CurrentObject ==
    IF pc = "q_pass"
    THEN Sphere(instances[matrixIt] + meshEntry.squaredBoundingSphere.position,
                meshEntry.squaredBoundingSphere.radius)
    ELSE Sphere(modelData.transformMatrix + modelData.obbSphere.position,
                modelData.obbSphere.radius)

\* The step sends lights after a ChooseLights call made for the object it
\* draws: in a pass of an opaque instance, which follows the call of line 728,
\* or with the call of line 1010 for a transparent mesh. The passes of the
\* instancing path and the shader change of DrawTransparentModels come with no
\* call for what they draw.
ChosenForCurrentObject ==
    /\ pc \in {"q_pass", "t_mesh"}
    /\ chooseArgs'.called
    /\ chooseArgs'.object = CurrentObject
    /\ m_lights' \in ChooseLights(m_lights, CurrentObject, chooseArgs'.include,
                                  directionalLights, pointLights, spotLights)

\* Every entry the step sends refers to a light of the queue.
ReadsInsideQueue == \A i \in LightReads : calls'[i].light # <<>>

\* C31: whenever SendLightUniforms reads an entry of m_lights, the list was
\* produced by a ChooseLights call made for the object being drawn against the
\* current render queue, and the entry's index is smaller than the size of the
\* queue's list of its kind.
C31_FreshLights ==
    [][LightReads # {} => ChosenForCurrentObject /\ ReadsInsideQueue]_vars

\* The same statement for the passes of the opaque meshes drawn without
\* instancing.
FreshLightsWithoutInstancing ==
    [][(LightReads # {} /\ pc = "q_pass") =>
          ChosenForCurrentObject /\ ReadsInsideQueue]_vars

\* The same statement for the lights sent for each transparent mesh.
FreshLightsPerTransparentMesh ==
    [][(LightReads # {} /\ pc = "t_mesh") =>
          ChosenForCurrentObject /\ ReadsInsideQueue]_vars

\* No entry of m_lights is sent in the instancing path.
NoReadWithInstancing == [][pc = "q_inst_pass" => LightReads = {}]_vars

\* No entry of m_lights is sent on a shader change of DrawTransparentModels.
NoReadOnShaderChange == [][pc = "t_model" => LightReads = {}]_vars

\* No call sends an entry that refers to no light of the queue.
AllReadsInsideQueue ==
    \A i \in 1..Len(calls) : calls[i].op = "SendLight" =>
        (calls[i].type = "Disabled" \/ calls[i].light # <<>>)

\* Lights were sent in a pass of the instancing path.
InstancedLightsRead ==
    /\ pc = "q_inst_pass"
    /\ calls # <<>>
    /\ calls[Len(calls)].op = "DrawInstanced"
    /\ \E e \in SentLights : e.type # "Disabled"

\* Lights were sent for a transparent mesh.
TransparentLightsRead ==
    /\ pc = "t_model"
    /\ chooseArgs.called
    /\ \E i \in 1..Len(calls) : calls[i].op = "SendLight" /\ calls[i].type # "Disabled"

\* ---------------------------------------------------------------------------
\* Opaque meshes of a shader without light uniforms
\* ---------------------------------------------------------------------------

\* bool instancing = m_instancingEnabled && (maxInstanceCount > MIN_INSTANCES_COUNT)
PipelineInstancing(p) ==
    /\ m_instancingEnabled
    /\ opaqueModels[p].maxInstanceCount > InstancingMinInstancesCount

\* The shader bound for the meshes of pipeline batch p has no light uniforms.
UnlitPipeline(p) ==
    LET shader == GetInstanceShader(opaqueModels[p].pipeline, PipelineInstancing(p))
    IN ~ResolveUniforms(uniformLocation[shader]).hasLightUniforms

\* The draws of a mesh entry <<pipeline, material, mesh>>, in order.
MeshDraws(mesh) ==
    SelectSeq(calls, LAMBDA e : IsMeshDraw(e)
                                /\ <<e.object[1], e.object[2], e.object[3]>> = mesh)

\* The mesh entries with instances of the enabled material batches of the
\* pipeline batches whose shader has no light uniforms.
UnlitMeshes ==
    {mesh \in UNION {UNION {{<<p, m, k>> : k \in DOMAIN opaqueModels[p].materialMap[m].meshMap} :
                               m \in DOMAIN opaqueModels[p].materialMap} :
                     p \in DOMAIN opaqueModels} :
        /\ UnlitPipeline(mesh[1])
        /\ opaqueModels[mesh[1]].materialMap[mesh[2]].enabled}

MeshInstances(mesh) ==
    opaqueModels[mesh[1]].materialMap[mesh[2]].meshMap[mesh[3]].instances

\* No instance of an unlit mesh is submitted twice, and all are submitted once
\* when DrawOpaqueModels returns.
UnlitSubmittedOnce(meshes) ==
    \A mesh \in meshes :
        /\ SumCounts(MeshDraws(mesh)) <= Len(MeshInstances(mesh))
        /\ pc = "done" => SumCounts(MeshDraws(mesh)) = Len(MeshInstances(mesh))

\* No draw of an unlit mesh is issued with additive blending and the depth
\* comparison "equal".
UnlitNeverAdditive ==
    \A i \in 1..Len(calls) :
        (IsMeshDraw(calls[i]) /\ UnlitPipeline(calls[i].object[1])) =>
            /\ calls[i].states.blendFunc # AdditiveStates.blendFunc
            /\ calls[i].states.depthFunc # AdditiveStates.depthFunc

\* C32: when the shader bound for an opaque mesh has no light uniforms, every
\* instance of the mesh is submitted exactly once and the blend and depth state
\* is never switched to additive/equal, whatever the number of lights in the
\* queue, with and without instancing.
C32_UnlitDrawnOnce ==
    /\ UnlitSubmittedOnce(UnlitMeshes)
    /\ UnlitNeverAdditive

\* The same statement for the meshes drawn without instancing.
UnlitDrawnOnceWithoutInstancing ==
    /\ UnlitSubmittedOnce({mesh \in UnlitMeshes : ~PipelineInstancing(mesh[1])})
    /\ UnlitNeverAdditive

\* The same statement for the queues of at most MaxLightPerPass directional
\* lights.
UnlitDrawnOnceWithFewLights ==
    Len(directionalLights) <= MaxLightPerPass => C32_UnlitDrawnOnce

\* DrawOpaqueModels returned after an unlit mesh drawn without instancing with
\* more lights in the queue than a pass holds.
UnlitDrawnWithoutInstancing ==
    /\ pc = "done"
    /\ Len(directionalLights) > MaxLightPerPass
    /\ \E mesh \in UnlitMeshes :
          /\ ~PipelineInstancing(mesh[1])
          /\ Len(MeshDraws(mesh)) > 0

\* DrawOpaqueModels returned after an unlit mesh drawn with instancing.
UnlitDrawnWithInstancing ==
    /\ pc = "done"
    /\ \E mesh \in UnlitMeshes :
          /\ PipelineInstancing(mesh[1])
          /\ Len(MeshDraws(mesh)) > 0

-----------------------------------------------------------------------------
(* The shared quad index buffer: its content and the draws that read it *)

\* Initialize reached the loop that writes the indices: the buffer is allocated
\* and mapped, no quad is written yet.
InitIndexLoop ==
    /\ pc = "i_indices"
    /\ calls = <<>>
    /\ SpritesIdle
    /\ OrderedIdle
    /\ ShaderIdle
    /\ LightsIdle
    /\ OpaqueIdle
    /\ m_maxLightPassPerObject = DefaultMaxLightPassPerObject
    /\ DrawIdle
    /\ BillboardsIdle
    /\ opaqueSprites = <<>>
    /\ TransparentIdle
    /\ initStep = 4
    /\ errorFlags = {"ErrorFlag_ThrowException"}
    /\ resources = CompleteStep(CompleteStep(NoResources, 2), 3)
    /\ exception = NoException
    /\ returned = <<>>
    /\ indexLoop = [i |-> 0, indices |-> <<>>]

\* what no step of the loop changes
indexLoopRest == <<bufferVars, basicVars, spriteChainOffset, orderedVars, shaderVars,
                   lightVars, opaqueVars, m_maxLightPassPerObject, drawVars,
                   billboardVars, opaqueSprites, transparentVars>>

\* for (unsigned int i = 0; i < s_maxQuads; ++i) { the six stores }
QuadIndexIteration ==
    /\ pc = "i_indices"
    /\ indexLoop.i < s_maxQuads
    /\ indexLoop' = [i |-> indexLoop.i + 1, indices |-> QuadIndices(indexLoop.i)]
    /\ UNCHANGED <<commonVars, indexLoopRest, initVars>>

\* the loop test fails: the statement after the loop is next
QuadIndexLoopEnd ==
    /\ pc = "i_indices"
    /\ ~(indexLoop.i < s_maxQuads)
    /\ resources' = CompleteStep(resources, initStep)
    /\ initStep' = initStep + 1
    /\ pc' = "done"
    /\ UNCHANGED <<calls, indexLoopRest, errorFlags, exception, returned, indexLoop>>

\* One sprite chain, one sorted sprite entry and one material's billboards of one
\* quad more than the index buffer describes, with streaming buffers that hold
\* them all.
LargeVertexCounts == {4 * (s_maxQuads + 1)}
LargeChainLists == {<<SpriteChain(1, s_maxQuads + 1)>>}
LargeSpriteDatas == {<<UnbatchedSpriteData(1, s_maxQuads + 1, "matA", Null)>>}
LargeBillboardLayers ==
    {<<BillboardPipelineEntry("pipe2", TRUE, <<BillboardEntry("matC", s_maxQuads + 1)>>)>>}

InitQuadIndexBuffer ==
    \/ InitIndexLoop
    \/ InitStreaming
    \/ InitBasicOn(LargeVertexCounts, LargeChainLists)
    \/ InitOrderedOn(LargeVertexCounts, LargeSpriteDatas)
    \/ InitBillboardsOn({s_maxQuads + 1}, LargeBillboardLayers)

NextQuadIndexBuffer ==
    \/ QuadIndexIteration
    \/ QuadIndexLoopEnd
    \/ NextStreaming

SpecQuadIndexBuffer == InitQuadIndexBuffer /\ [][NextQuadIndexBuffer]_vars

\* The indices an indexed draw reads from s_quadIndexBuffer.
IndexCount(e) ==
    CASE e.op = "Draw" -> e.count * 6
      [] e.op = "DrawIndexedPrimitives" -> e.indexCount

\* The quad written last holds 4i, 4i+2, 4i+1, 4i+2, 4i+3, 4i+1, none wrapped.
LastQuadStoredExactly ==
    indexLoop.i > 0 =>
        LET i == indexLoop.i - 1
        IN /\ i < s_maxQuads
           /\ indexLoop.indices = <<4 * i, 4 * i + 2, 4 * i + 1,
                                    4 * i + 2, 4 * i + 3, 4 * i + 1>>
           /\ 4 * i + 3 <= UInt16Max

\* The loop ends after s_maxQuads quads.
LoopWritesEveryQuad == pc # "i_indices" => indexLoop.i = s_maxQuads

\* Every indexed draw reads at most s_maxQuads * 6 indices.
DrawsWithinIndexBuffer ==
    \A k \in 1..Len(calls) :
        calls[k].op \in StreamDrawOps => IndexCount(calls[k]) <= s_maxQuads * 6

\* C33: after Initialize every quad i below s_maxQuads has the indices 4i, 4i+2,
\* 4i+1, 4i+2, 4i+3, 4i+1 in the shared index buffer, stored in 16 bits without
\* wrap-around, and every indexed draw of the sprite and billboard submitters
\* reads at most s_maxQuads * 6 of them.
C33_QuadIndexBuffer ==
    /\ LastQuadStoredExactly
    /\ LoopWritesEveryQuad
    /\ DrawsWithinIndexBuffer

\* The content of the index buffer is as stated: every quad of the loop is
\* stored exactly and the loop covers s_maxQuads quads.
QuadIndicesExact == LastQuadStoredExactly /\ LoopWritesEveryQuad

\* DrawBasicSprites and DrawBillboards stay within the index buffer: the draws of
\* a run without sorted sprites.
BasicAndBillboardDrawsWithinIndexBuffer ==
    depthSortedSpriteData = <<>> => DrawsWithinIndexBuffer

\* The loop wrote its last quad and Initialize went on.
LastQuadWritten ==
    /\ pc = "done"
    /\ initStep = 5
    /\ indexLoop = [i |-> s_maxQuads, indices |-> QuadIndices(s_maxQuads - 1)]

\* DrawBasicSprites drew s_maxQuads quads in one call.
BasicDrewFullBatch ==
    \E k \in 1..Len(calls) :
        /\ calls[k].op = "Draw"
        /\ calls[k].count = s_maxQuads
        /\ depthSortedSpriteData = <<>>

\* DrawBillboards drew s_maxQuads quads in one call without instancing.
BillboardsDrewFullBatch ==
    \E k \in 1..Len(calls) :
        /\ calls[k].op = "DrawIndexedPrimitives"
        /\ calls[k].indexCount = s_maxQuads * 6

\* DrawOrderedSprites drew s_maxQuads quads, refilled the buffer with the quad
\* left of the chain and drew s_maxQuads + 1 quads in one call.
OrderedDrewBeyondIndexBuffer ==
    /\ depthSortedSpriteData # <<>>
    /\ \E j, k \in 1..Len(calls) :
          /\ j < k
          /\ calls[j].op = "Draw" /\ calls[j].count = s_maxQuads
          /\ calls[k].op = "Draw" /\ calls[k].first = 0
          /\ calls[k].count = s_maxQuads + 1

====
